---- MODULE Spec2Model ----
(***************************************************************************)
(* Model of the ftp-backup retention and pruning engine                    *)
(* (lib/ftp_backup/by_ftp_app.py, sftp_handler.py, by_sftp_app.py).        *)
(*                                                                         *)
(* Directory and file names are sequences of character codes (ASCII), so   *)
(* that the regular expressions, the date parsing, the '%02d' formatting   *)
(* and the case-insensitive lexicographic sort of the code are computed,   *)
(* not assumed.                                                            *)
(***************************************************************************)
EXTENDS Integers, Sequences, FiniteSets, TLC

\* ------------------------------------------------------------------------
\* Bounds of the model
\* ------------------------------------------------------------------------

\* largest per-class quota drawn for self.copies
MaxCopies == 2
\* number of backup runs in one behaviour
MaxRuns == 2
\* number of times the UTC date advances in one behaviour
MaxDays == 2
\* number of directories on the remote root before the first run
MaxInitDirs == 2
\* largest listing of which every order is tried
MaxPermuted == 3
\* largest max_stor_attempts an FTPHandler is given
MaxStorAttempts == 11

\* ------------------------------------------------------------------------
\* Characters and strings
\* ------------------------------------------------------------------------

\* \d of the regular expressions: '0'..'9'
DIGIT == 48..57

\* [-_] of the regular expressions: '-' and '_'
SEP == {45, 95}

\* \s of the regular expressions: space, \t, \n, \v, \f, \r
WS == {32, 9, 10, 11, 12, 13}

Range(seq) == {seq[i] : i \in 1..Len(seq)}

InList(x, seq) == \E i \in 1..Len(seq) : seq[i] = x

RECURSIVE DecStr(_)
\* decimal representation of a natural number, as '%d' renders it
DecStr(n) == IF n < 10 THEN <<48 + n>> ELSE DecStr(n \div 10) \o <<48 + (n % 10)>>

RECURSIVE ZeroPad(_, _)
\* '%0<w>d': the decimal representation, left-padded with '0' to width w
ZeroPad(s, w) == IF Len(s) >= w THEN s ELSE ZeroPad(<<48>> \o s, w)

Digits(n, w) == ZeroPad(DecStr(n), w)

RECURSIVE Skip(_, _, _)
\* first position >= i of s that does not hold a character of class C
\* (the end of the greedy match of C* starting at i)
Skip(s, i, C) == IF i <= Len(s) /\ s[i] \in C THEN Skip(s, i + 1, C) ELSE i

RECURSIVE ToInt(_, _, _)
\* int() of the digits s[i..j-1]
ToInt(s, i, j) == IF j <= i THEN 0 ELSE 10 * ToInt(s, i, j - 1) + (s[j - 1] - 48)

\* str.lower
Lower(s) == [i \in 1..Len(s) |-> IF s[i] \in 65..90 THEN s[i] + 32 ELSE s[i]]

RECURSIVE LexLessFrom(_, _, _)
LexLessFrom(a, b, i) ==
    IF i > Len(a) THEN i <= Len(b)
    ELSE IF i > Len(b) THEN FALSE
    ELSE IF a[i] < b[i] THEN TRUE
    ELSE IF a[i] > b[i] THEN FALSE
    ELSE LexLessFrom(a, b, i + 1)

\* Python's string comparison a < b
LexLess(a, b) == LexLessFrom(a, b, 1)

\* comparison of the sort keys of list.sort(key=str.lower)
KeyLess(a, b) == LexLess(Lower(a), Lower(b))

RECURSIVE InsertSorted(_, _)
\* insert x behind every element whose key is not greater (stable sort)
InsertSorted(sorted, x) ==
    IF sorted = <<>> THEN <<x>>
    ELSE IF KeyLess(x, Head(sorted)) THEN <<x>> \o sorted
    ELSE <<Head(sorted)>> \o InsertSorted(Tail(sorted), x)

RECURSIVE SortLowerRec(_)
SortLowerRec(seq) ==
    IF seq = <<>> THEN <<>>
    ELSE InsertSorted(SortLowerRec(SubSeq(seq, 1, Len(seq) - 1)), seq[Len(seq)])

\* variant: the list is left in the order in which it was filled
SortLowerUnsorted(seq) == seq

\* list.sort(key=str.lower)
SortLower(seq) == SortLowerRec(seq)

\* ------------------------------------------------------------------------
\* Calendar (datetime of the standard library, as the code uses it)
\* ------------------------------------------------------------------------

IsLeap(y) == (y % 4 = 0) /\ ((y % 100 # 0) \/ (y % 400 = 0))

DaysInMonth(y, m) ==
    IF m = 2 THEN (IF IsLeap(y) THEN 29 ELSE 28)
    ELSE IF m \in {4, 6, 9, 11} THEN 30 ELSE 31

\* datetime(year, month, day) does not raise ValueError
ValidDate(y, m, d) ==
    /\ y >= 1 /\ y <= 9999
    /\ m >= 1 /\ m <= 12
    /\ d >= 1 /\ d <= DaysInMonth(y, m)

RECURSIVE DaysBeforeMonth(_, _)
DaysBeforeMonth(y, m) ==
    IF m <= 1 THEN 0 ELSE DaysBeforeMonth(y, m - 1) + DaysInMonth(y, m - 1)

\* proleptic Gregorian ordinal, 0001-01-01 is day 1
ToOrdinal(y, m, d) ==
    LET y1 == y - 1
    IN  y1 * 365 + (y1 \div 4) - (y1 \div 100) + (y1 \div 400)
        + DaysBeforeMonth(y, m) + d

\* dt.timetuple().tm_wday: Monday = 0 .. Sunday = 6
\* variant: weekdays counted from Sunday = 0, as strftime('%w') does
WeekdayFromSunday(y, m, d) == ToOrdinal(y, m, d) % 7

Weekday(y, m, d) == (ToOrdinal(y, m, d) + 6) % 7

\* the day after a date (the UTC clock moving on)
NextDate(dt) ==
    IF dt.day < DaysInMonth(dt.year, dt.month)
    THEN [dt EXCEPT !.day = dt.day + 1]
    ELSE IF dt.month < 12
    THEN [year |-> dt.year, month |-> dt.month + 1, day |-> 1]
    ELSE [year |-> dt.year + 1, month |-> 1, day |-> 1]

\* ------------------------------------------------------------------------
\* Retention classifier and pruner (pure parts of _run)
\* ------------------------------------------------------------------------

\* re_backup_dirs = r'^\s*\d{4}[-_]+\d\d[-_]+\d\d[-_]+\d+\s*$' matches s.
\* The character classes are pairwise disjoint, so the greedy match is the
\* only candidate match.
MatchBackupDirs(s) ==
    LET a == Skip(s, 1, WS)
        b == Skip(s, a, DIGIT)
        c == Skip(s, b, SEP)
        d == Skip(s, c, DIGIT)
        e == Skip(s, d, SEP)
        f == Skip(s, e, DIGIT)
        g == Skip(s, f, SEP)
        h == Skip(s, g, DIGIT)
        k == Skip(s, h, WS)
    IN  /\ b = a + 4
        /\ c > b
        /\ d = c + 2
        /\ e > d
        /\ f = e + 2
        /\ g > f
        /\ h > g
        /\ k = Len(s) + 1

\* re_backup_date = r'^\s*(\d+)[_\-](\d+)[_\-](\d+)' searched in s:
\* [ok, year, month, day], the groups converted by int()
MatchBackupDate(s) ==
    LET a == Skip(s, 1, WS)
        b == Skip(s, a, DIGIT)
        c == b + 1
        d == Skip(s, c, DIGIT)
        e == d + 1
        f == Skip(s, e, DIGIT)
        ok == /\ b > a
              /\ b <= Len(s) /\ s[b] \in SEP
              /\ d > c
              /\ d <= Len(s) /\ s[d] \in SEP
              /\ f > e
    IN  IF ok
        THEN [ok |-> TRUE, year |-> ToInt(s, a, b), month |-> ToInt(s, c, d),
              day |-> ToInt(s, e, f)]
        ELSE [ok |-> FALSE, year |-> 0, month |-> 0, day |-> 0]

\* backup_dir_tpl % (i), with backup_dir_tpl = cur_date.strftime('%Y-%m-%d_%%02d')
BackupDirTpl(cur_date, i) ==
    Digits(cur_date.year, 4) \o <<45>> \o Digits(cur_date.month, 2) \o <<45>>
        \o Digits(cur_date.day, 2) \o <<95>> \o Digits(i, 2)

RECURSIVE SearchNewBackupDir(_, _, _)
\* the loop 'while not found': the counter of the first free name
SearchNewBackupDir(cur_date, dirs, i) ==
    IF ~InList(BackupDirTpl(cur_date, i), dirs) THEN i
    ELSE SearchNewBackupDir(cur_date, dirs, i + 1)

\* variant: the counter is the number of directories found
NewBackupDirByCount(cur_date, dirs) == BackupDirTpl(cur_date, Len(dirs))

NewBackupDir(cur_date, dirs) ==
    BackupDirTpl(cur_date, SearchNewBackupDir(cur_date, dirs, 0))

\* the names of the listing that are backup directories, sorted
CurBackupDirs(dlist) ==
    LET IsBackupDir(n) == MatchBackupDirs(n)
    IN  SortLower(SelectSeq(dlist, IsBackupDir))

EmptyMapping ==
    [yearly |-> <<>>, monthly |-> <<>>, weekly |-> <<>>, daily |-> <<>>, other |-> <<>>]

\* 'if not x in l: l.append(x)'
AppendNew(l, x) == IF InList(x, l) THEN l ELSE Append(l, x)

\* the entries made for one date in the dated classes
MapDate(tm, name, y, m, d) ==
    LET t1 == IF m = 1 /\ d = 1
              THEN [tm EXCEPT !.yearly = AppendNew(tm.yearly, name)] ELSE tm
        t2 == IF d = 1
              THEN [t1 EXCEPT !.monthly = AppendNew(t1.monthly, name)] ELSE t1
        t3 == IF Weekday(y, m, d) = 6
              THEN [t2 EXCEPT !.weekly = AppendNew(t2.weekly, name)] ELSE t2
    IN  [t3 EXCEPT !.daily = AppendNew(t3.daily, name)]

\* variant: the 'continue' after an invalid date is missing
MapDirNoContinue(tm, backup_dir) ==
    LET match == MatchBackupDate(backup_dir)
    IN  IF ~match.ok
        THEN [tm EXCEPT !.other = AppendNew(tm.other, backup_dir)]
        ELSE IF ~ValidDate(match.year, match.month, match.day)
        THEN [tm EXCEPT !.other = AppendNew(tm.other, backup_dir),
                        !.daily = AppendNew(tm.daily, backup_dir)]
        ELSE MapDate(tm, backup_dir, match.year, match.month, match.day)

\* one iteration of the loop of map_dirs2types
MapDir(tm, backup_dir) ==
    LET match == MatchBackupDate(backup_dir)
    IN  IF ~match.ok
        THEN [tm EXCEPT !.other = AppendNew(tm.other, backup_dir)]
        ELSE IF ~ValidDate(match.year, match.month, match.day)
        THEN [tm EXCEPT !.other = AppendNew(tm.other, backup_dir)]
        ELSE MapDate(tm, backup_dir, match.year, match.month, match.day)

RECURSIVE MapDirs2Types(_, _)
MapDirs2Types(tm, backup_dirs) ==
    IF backup_dirs = <<>> THEN tm
    ELSE MapDirs2Types(MapDir(tm, Head(backup_dirs)), Tail(backup_dirs))

\* the mapping after the new directory was entered by the current date,
\* map_dirs2types has run and every list was sorted
Classify(cur_date, new_backup_dir, cur_backup_dirs) ==
    LET seeded == MapDate(EmptyMapping, new_backup_dir,
                          cur_date.year, cur_date.month, cur_date.day)
        tm == MapDirs2Types(seeded, cur_backup_dirs)
    IN  [key \in DOMAIN tm |-> SortLower(tm[key])]

\* variant: 'if' instead of 'while', one entry is dropped at most
PopOnceIfOver(l, max_copies) == IF Len(l) > max_copies THEN Tail(l) ELSE l

\* variant: pop() instead of pop(0), the newest entries are dropped
PopLastWhileOver(l, max_copies) ==
    IF Len(l) > max_copies THEN SubSeq(l, 1, max_copies) ELSE l

RECURSIVE PopWhileOver(_, _)
\* 'while cur_copies > max_copies: pop(0)'
PopWhileOver(l, max_copies) ==
    IF Len(l) > max_copies THEN PopWhileOver(Tail(l), max_copies) ELSE l

\* the quota loop over self.copies
Evict(tm, cps) ==
    [key \in DOMAIN tm |->
        IF key \in DOMAIN cps THEN PopWhileOver(tm[key], cps[key]) ELSE tm[key]]

\* variant: only the four lists with a quota are searched
KeepDatedOnly(tm, backup_dir) ==
    \E key \in {"yearly", "monthly", "weekly", "daily"} : InList(backup_dir, tm[key])

\* variant: only the daily list is searched
KeepDailyOnly(tm, backup_dir) == InList(backup_dir, tm.daily)

\* 'keep' of one directory: it is in some list of type_mapping
Keep(tm, backup_dir) == \E key \in DOMAIN tm : InList(backup_dir, tm[key])

\* dirs_delete
DirsDelete(cur_backup_dirs, tm) ==
    LET Drop(n) == ~Keep(tm, n)
    IN  SelectSeq(cur_backup_dirs, Drop)

\* the computation of _run between the listing and the removal, for a
\* listing delivered in the given order
RunResult(order, cur_date, cps) ==
    LET found == CurBackupDirs(order)
        new == NewBackupDir(cur_date, found)
        dirs == Append(found, new)
        tm == Evict(Classify(cur_date, new, dirs), cps)
    IN  [new |-> new, del |-> Range(DirsDelete(dirs, tm))]

\* re_whitespace.sub('_', name): every maximal run of whitespace becomes '_'
RECURSIVE WhitespaceSub(_)
WhitespaceSub(s) ==
    IF s = <<>> THEN <<>>
    ELSE IF Head(s) \in WS
    THEN <<95>> \o WhitespaceSub(SubSeq(s, Skip(s, 1, WS), Len(s)))
    ELSE <<Head(s)>> \o WhitespaceSub(Tail(s))


\* ------------------------------------------------------------------------
\* The remote server and the local directory
\* ------------------------------------------------------------------------

\* names found on the remote root before the first run
Pool ==
    { Digits(2023, 4) \o <<45>> \o Digits(12, 2) \o <<45>> \o Digits(31, 2) \o <<95>> \o Digits(0, 2),
      Digits(2024, 4) \o <<45>> \o Digits(1, 2) \o <<45>> \o Digits(1, 2) \o <<95>> \o Digits(1, 2),
      Digits(2024, 4) \o <<45>> \o Digits(1, 2) \o <<45>> \o Digits(2, 2) \o <<95>> \o Digits(1, 2),
      Digits(2024, 4) \o <<45>> \o Digits(13, 2) \o <<45>> \o Digits(40, 2) \o <<95>> \o Digits(0, 2),
      Digits(2024, 4) \o <<95>> \o Digits(1, 2) \o <<95>> \o Digits(1, 2) \o <<95>> \o Digits(0, 2),
      Digits(2023, 4) \o <<45, 45>> \o Digits(12, 2) \o <<45>> \o Digits(31, 2) \o <<95>> \o Digits(0, 2),
      <<78, 111, 116, 101, 115>> }

\* the UTC date of the first run
FirstDate == [year |-> 2023, month |-> 12, day |-> 31]

\* the regular files of the local directory: "a b" and "c"
LocalFiles == {<<97, 32, 98>>, <<99>>}

\* the quotas of self.copies that are drawn
CopiesChoices ==
    {[yearly |-> q, monthly |-> q, weekly |-> q, daily |-> d] :
        q \in 1..MaxCopies, d \in 1..MaxCopies}

RECURSIVE Perms(_)
\* all sequences that hold every element of S once
Perms(S) ==
    IF S = {} THEN {<<>>}
    ELSE UNION {{<<x>> \o p : p \in Perms(S \ {x})} : x \in S}

RECURSIVE SeqOf(_)
SeqOf(S) == IF S = {} THEN <<>> ELSE LET x == CHOOSE x \in S : TRUE
                                     IN  <<x>> \o SeqOf(S \ {x})

\* the names of S in sorted order
SortedSeq(S) == SortLower(SeqOf(S))

Reverse(seq) == [i \in 1..Len(seq) |-> seq[Len(seq) + 1 - i]]

\* the orders in which the server may deliver a listing of the names of S:
\* every order for up to MaxPermuted names, ascending and descending beyond
ListingOrders(S) ==
    IF Cardinality(S) <= MaxPermuted THEN Perms(S)
    ELSE {SortedSeq(S), Reverse(SortedSeq(S))}

\* sorted(local_files, key=str.lower)
SortedLocalFiles == SortedSeq(LocalFiles)

Call(op, arg) == [op |-> op, arg |-> arg]

\* the remote calls that change the server
MutatingOps == {"delete", "rmd", "mkd", "stor", "mkdir", "rmdir", "remove"}

DotDot == <<46, 46>>

RootDir == <<47>>

VARIABLES
    pc,              \* position of the run
    runs,            \* number of finished runs
    days,            \* number of date changes so far
    today,           \* current UTC date
    copies,          \* self.copies
    simulate,        \* self.simulate
    remote,          \* remote root: directory name -> set of file names in it
    remote_cwd,      \* current directory of the session: RootDir or a name
    connected,       \* self.connected
    logged_in,       \* self.logged_in
    calls,           \* remote calls issued in the current run, in order
    cur_backup_dirs, \* cur_backup_dirs
    new_backup_dir,  \* new_backup_dir
    type_mapping,    \* type_mapping
    dirs_delete,     \* dirs_delete
    step,            \* index into the list the current loop iterates
    aborted,         \* an exception has left _run
    dlist,           \* dlist of the root, while the computation uses it (when recorded)
    host_dir,        \* SFTP: the remote entry named after the local host
    handler,         \* fields of an FTPHandler, SFTPHandler or EntryPermissions object
    server,          \* what the remote side holds and how it answers
    request,         \* the method called on the handler and its argument
    result,          \* how the method ended and what it returned
    frame            \* local variables of the method that is running

\* the variables of the handler objects
hvars == <<handler, server, request, result, frame>>

\* the variables of the backup run, without the log of remote calls and pc
rvars == <<runs, days, today, copies, simulate, remote, remote_cwd, connected,
           logged_in, cur_backup_dirs, new_backup_dir, type_mapping,
           dirs_delete, step, aborted, dlist, host_dir>>

vars == <<pc, runs, days, today, copies, simulate, remote, remote_cwd, connected,
          logged_in, calls, cur_backup_dirs, new_backup_dir, type_mapping,
          dirs_delete, step, aborted, dlist, host_dir, hvars>>

\* no handler object is in use
NoHandler ==
    /\ handler = [class |-> "none"]
    /\ server = [kind |-> "none"]
    /\ request = [op |-> "none"]
    /\ result = [status |-> "none"]
    /\ frame = [method |-> "none"]

\* the files an earlier run has left in a backup directory
UploadedNames == {WhitespaceSub(f) : f \in LocalFiles}

InitBase ==
    /\ pc = "idle"
    /\ runs = 0
    /\ days = 0
    /\ today = FirstDate
    /\ copies \in CopiesChoices
    /\ simulate \in BOOLEAN
    /\ \E S \in SUBSET Pool :
          /\ Cardinality(S) <= MaxInitDirs
          /\ remote = [n \in S |-> UploadedNames]
    /\ remote_cwd = RootDir
    /\ connected = FALSE
    /\ logged_in = FALSE
    /\ calls = <<>>
    /\ cur_backup_dirs = <<>>
    /\ new_backup_dir = <<>>
    /\ type_mapping = EmptyMapping
    /\ dirs_delete = <<>>
    /\ step = 0
    /\ aborted = FALSE
    /\ dlist = <<>>
    /\ NoHandler

Init == InitBase /\ host_dir = "dir"

\* the clock passes midnight between two runs
AdvanceDay ==
    /\ pc = "idle"
    /\ days < MaxDays
    /\ days' = days + 1
    /\ today' = NextDate(today)
    /\ UNCHANGED <<pc, runs, copies, simulate, remote, remote_cwd, connected,
                   logged_in, calls, cur_backup_dirs, new_backup_dir,
                   type_mapping, dirs_delete, step, aborted, dlist, host_dir>>
    /\ UNCHANGED hvars

\* a new process: __init__, then _run up to the first listing
Login ==
    /\ pc = "idle"
    /\ runs < MaxRuns
    /\ connected' = TRUE
    /\ logged_in' = TRUE
    /\ remote_cwd' = RootDir
    /\ calls' = <<Call("connect", <<>>), Call("login", <<>>), Call("cwd", RootDir)>>
    /\ cur_backup_dirs' = <<>>
    /\ new_backup_dir' = <<>>
    /\ type_mapping' = EmptyMapping
    /\ dirs_delete' = <<>>
    /\ step' = 0
    /\ aborted' = FALSE
    /\ pc' = "list"
    /\ UNCHANGED <<runs, days, today, copies, simulate, remote, dlist, host_dir>>
    /\ UNCHANGED hvars

\* dir_list() of the remote root and the filter for backup directories
DirListStep(order) ==
    /\ pc = "list"
    /\ calls' = Append(calls, Call("dir", <<>>))
    /\ cur_backup_dirs' = CurBackupDirs(order)
    /\ pc' = "newdir"
    /\ UNCHANGED <<runs, days, today, copies, simulate, remote, remote_cwd,
                   connected, logged_in, new_backup_dir, type_mapping,
                   dirs_delete, step, aborted, host_dir>>
    /\ UNCHANGED hvars

DirList == \E order \in ListingOrders(DOMAIN remote) : DirListStep(order) /\ UNCHANGED dlist

\* the name of the new backup directory
RetrieveNewDir ==
    /\ pc = "newdir"
    /\ new_backup_dir' = NewBackupDir(today, cur_backup_dirs)
    /\ cur_backup_dirs' = Append(cur_backup_dirs, new_backup_dir')
    /\ pc' = "classify"
    /\ UNCHANGED <<runs, days, today, copies, simulate, remote, remote_cwd,
                   connected, logged_in, calls, type_mapping, dirs_delete, step,
                   aborted, dlist, host_dir>>
    /\ UNCHANGED hvars

\* type_mapping is filled and sorted
MapTypes ==
    /\ pc = "classify"
    /\ type_mapping' = Classify(today, new_backup_dir, cur_backup_dirs)
    /\ pc' = "evict"
    /\ UNCHANGED <<runs, days, today, copies, simulate, remote, remote_cwd,
                   connected, logged_in, calls, cur_backup_dirs, new_backup_dir,
                   dirs_delete, step, aborted, dlist, host_dir>>
    /\ UNCHANGED hvars

\* the quota loop
ApplyQuota ==
    /\ pc = "evict"
    /\ type_mapping' = Evict(type_mapping, copies)
    /\ pc' = "select"
    /\ UNCHANGED <<runs, days, today, copies, simulate, remote, remote_cwd,
                   connected, logged_in, calls, cur_backup_dirs, new_backup_dir,
                   dirs_delete, step, aborted, dlist, host_dir>>
    /\ UNCHANGED hvars

\* dirs_delete is computed
SelectDelete ==
    /\ pc = "select"
    /\ dirs_delete' = DirsDelete(cur_backup_dirs, type_mapping)
    /\ step' = 1
    /\ pc' = "remove"
    /\ UNCHANGED <<runs, days, today, copies, simulate, remote, remote_cwd,
                   connected, logged_in, calls, cur_backup_dirs, new_backup_dir,
                   type_mapping, aborted, dlist, host_dir>>
    /\ UNCHANGED hvars


RemoveItem == dirs_delete[step]

DeleteCalls(files) == [i \in 1..Len(files) |-> Call("delete", files[i])]

\* the calls of remove_recursive(item) for a directory that holds plain files
RemoveDirCalls(item, files) ==
    <<Call("cwd", item), Call("dir", <<>>)>>
        \o (IF simulate THEN <<>> ELSE DeleteCalls(files))
        \o <<Call("cwd", DotDot)>>
        \o (IF simulate THEN <<>> ELSE <<Call("rmd", item)>>)

\* the calls of remove_recursive(item) when the cwd into item is refused
RemoveRefusedCalls(item) ==
    <<Call("cwd", item)>> \o (IF simulate THEN <<>> ELSE <<Call("delete", item)>>)

\* remove_recursive(item) for the next item of dirs_delete
RemoveRecursive ==
    /\ pc = "remove"
    /\ step <= Len(dirs_delete)
    /\ IF RemoveItem \in DOMAIN remote
       THEN /\ calls' = calls \o RemoveDirCalls(RemoveItem, SortedSeq(remote[RemoveItem]))
            /\ remote' = IF simulate THEN remote
                         ELSE [n \in DOMAIN remote \ {RemoveItem} |-> remote[n]]
            /\ step' = step + 1
            /\ UNCHANGED <<pc, aborted>>
       ELSE \* error_perm on cwd; the delete of the missing item raises error_perm
            /\ calls' = calls \o RemoveRefusedCalls(RemoveItem)
            /\ remote' = remote
            /\ IF simulate
               THEN step' = step + 1 /\ UNCHANGED <<pc, aborted>>
               ELSE aborted' = TRUE /\ pc' = "post_run" /\ UNCHANGED step
    /\ dlist' = <<>>
    /\ UNCHANGED <<runs, days, today, copies, simulate, remote_cwd, connected,
                   logged_in, cur_backup_dirs, new_backup_dir, type_mapping,
                   dirs_delete, host_dir>>
    /\ UNCHANGED hvars

\* the new directory is created and entered
MakeDir ==
    /\ pc = "remove"
    /\ step > Len(dirs_delete)
    /\ IF simulate
       THEN UNCHANGED <<calls, remote, remote_cwd>>
       ELSE /\ calls' = calls \o <<Call("mkd", new_backup_dir), Call("cwd", new_backup_dir)>>
            /\ remote' = [n \in DOMAIN remote \cup {new_backup_dir} |->
                            IF n = new_backup_dir THEN {} ELSE remote[n]]
            /\ remote_cwd' = new_backup_dir
    /\ step' = 1
    /\ pc' = "upload"
    /\ dlist' = <<>>
    /\ UNCHANGED <<runs, days, today, copies, simulate, connected, logged_in,
                   cur_backup_dirs, new_backup_dir, type_mapping, dirs_delete,
                   aborted, host_dir>>
    /\ UNCHANGED hvars

\* variant: the root is listed for the usage report after each file
StoreFileAndList ==
    /\ pc = "upload"
    /\ step <= Len(SortedLocalFiles)
    /\ LET remote_file == WhitespaceSub(SortedLocalFiles[step])
       IN  IF simulate
           THEN UNCHANGED <<calls, remote>>
           ELSE /\ calls' = calls \o <<Call("stor", remote_file), Call("dir", <<>>)>>
                /\ remote' = [remote EXCEPT ![remote_cwd] = @ \cup {remote_file}]
    /\ step' = step + 1
    /\ UNCHANGED <<pc, runs, days, today, copies, simulate, remote_cwd, connected,
                   logged_in, cur_backup_dirs, new_backup_dir, type_mapping,
                   dirs_delete, aborted, dlist, host_dir>>
    /\ UNCHANGED hvars

\* one local file is transferred
StoreFile ==
    /\ pc = "upload"
    /\ step <= Len(SortedLocalFiles)
    /\ LET remote_file == WhitespaceSub(SortedLocalFiles[step])
       IN  IF simulate
           THEN UNCHANGED <<calls, remote>>
           ELSE /\ calls' = Append(calls, Call("stor", remote_file))
                /\ remote' = [remote EXCEPT ![remote_cwd] = @ \cup {remote_file}]
    /\ step' = step + 1
    /\ UNCHANGED <<pc, runs, days, today, copies, simulate, remote_cwd, connected,
                   logged_in, cur_backup_dirs, new_backup_dir, type_mapping,
                   dirs_delete, aborted, dlist, host_dir>>
    /\ UNCHANGED hvars

\* the finally clause of the upload
CwdUp ==
    /\ pc = "upload"
    /\ step > Len(SortedLocalFiles)
    /\ IF simulate
       THEN UNCHANGED <<calls, remote_cwd>>
       ELSE /\ calls' = Append(calls, Call("cwd", DotDot))
            /\ remote_cwd' = RootDir
    /\ pc' = "usage"
    /\ UNCHANGED <<runs, days, today, copies, simulate, remote, connected,
                   logged_in, cur_backup_dirs, new_backup_dir, type_mapping,
                   dirs_delete, step, aborted, dlist, host_dir>>
    /\ UNCHANGED hvars

\* the disk usage report: one listing of the root; no entry counts as a directory
ShowUsage ==
    /\ pc = "usage"
    /\ calls' = Append(calls, Call("dir", <<>>))
    /\ pc' = "post_run"
    /\ UNCHANGED <<runs, days, today, copies, simulate, remote, remote_cwd,
                   connected, logged_in, cur_backup_dirs, new_backup_dir,
                   type_mapping, dirs_delete, step, aborted, dlist, host_dir>>
    /\ UNCHANGED hvars

\* post_run: the session is closed, the process ends
PostRun ==
    /\ pc = "post_run"
    /\ calls' = Append(calls, Call("quit", <<>>))
    /\ runs' = runs + 1
    /\ pc' = "idle"
    /\ UNCHANGED <<days, today, copies, simulate, remote, remote_cwd, connected,
                   logged_in, cur_backup_dirs, new_backup_dir, type_mapping,
                   dirs_delete, step, aborted, dlist, host_dir>>
    /\ UNCHANGED hvars

Next ==
    \/ AdvanceDay
    \/ Login
    \/ DirList
    \/ RetrieveNewDir
    \/ MapTypes
    \/ ApplyQuota
    \/ SelectDelete
    \/ RemoveRecursive
    \/ MakeDir
    \/ StoreFile
    \/ CwdUp
    \/ ShowUsage
    \/ PostRun

Spec == Init /\ [][Next]_vars


\* ------------------------------------------------------------------------
\* The same run with the order of the listing kept in the state
\* ------------------------------------------------------------------------

DirListRecorded ==
    \E order \in ListingOrders(DOMAIN remote) : DirListStep(order) /\ dlist' = order

InitOrder == Init /\ simulate = TRUE

NextOrder ==
    \/ AdvanceDay
    \/ Login
    \/ DirListRecorded
    \/ RetrieveNewDir
    \/ MapTypes
    \/ ApplyQuota
    \/ SelectDelete
    \/ RemoveRecursive
    \/ MakeDir
    \/ StoreFile
    \/ CwdUp
    \/ ShowUsage
    \/ PostRun

SpecOrder == InitOrder /\ [][NextOrder]_vars

\* ------------------------------------------------------------------------
\* The pruning computation on remote roots that hold more dated directories
\* than the quotas admit
\* ------------------------------------------------------------------------

\* a name 'YYYY-MM-DD_NN'
DatedName(y, m, d, n) ==
    Digits(y, 4) \o <<45>> \o Digits(m, 2) \o <<45>> \o Digits(d, 2) \o <<95>> \o Digits(n, 2)

\* directories of two ordinary days, a first of January, a first of
\* February, a Sunday and the day after it, and a name without a valid date
QuotaPool ==
    { DatedName(2023, 12, 29, 0), DatedName(2023, 12, 30, 0), DatedName(2024, 1, 1, 1),
      DatedName(2024, 2, 1, 0), DatedName(2024, 2, 4, 0), DatedName(2024, 2, 5, 0),
      DatedName(2024, 13, 40, 0) }

InitQuota ==
    /\ pc = "idle"
    /\ runs = 0
    /\ days = 0
    /\ today = FirstDate
    /\ copies \in CopiesChoices
    /\ simulate = TRUE
    /\ \E S \in SUBSET QuotaPool : remote = [n \in S |-> {}]
    /\ remote_cwd = RootDir
    /\ connected = FALSE
    /\ logged_in = FALSE
    /\ calls = <<>>
    /\ cur_backup_dirs = <<>>
    /\ new_backup_dir = <<>>
    /\ type_mapping = EmptyMapping
    /\ dirs_delete = <<>>
    /\ step = 0
    /\ aborted = FALSE
    /\ dlist = <<>>
    /\ host_dir = "dir"
    /\ NoHandler

NextQuota ==
    \/ AdvanceDay
    \/ Login
    \/ DirList
    \/ RetrieveNewDir
    \/ MapTypes
    \/ ApplyQuota
    \/ SelectDelete

SpecQuota == InitQuota /\ [][NextQuota]_vars

\* ------------------------------------------------------------------------
\* Two runs of BackupByFtpApp._run at the same time on one remote root.
\* Each process has its own session and its own local variables, kept in
\* 'frame'; the remote root is shared and nothing locks it.
\* ------------------------------------------------------------------------

Procs == {1, 2}

\* the local variables of a process that has not started, and the names its
\* remove_recursive has removed
NotStarted ==
    [pc |-> "idle", cur_backup_dirs |-> <<>>, new_backup_dir |-> <<>>,
     dirs_delete |-> <<>>, step |-> 0, aborted |-> FALSE, removed |-> <<>>]

\* the UTC dates of the two runs: a Sunday and an ordinary Tuesday
RaceDates == {FirstDate, NextDate(NextDate(FirstDate))}

\* names found on the remote root before the runs: a backup of the day
\* before the earlier date and one of the later date
RacePool == {DatedName(2023, 12, 30, 0), DatedName(2024, 1, 2, 1)}

InitRace ==
    /\ pc = "race"
    /\ runs = 0
    /\ days = 0
    /\ today \in RaceDates
    /\ copies \in CopiesChoices
    /\ simulate = FALSE
    /\ \E S \in SUBSET RacePool : remote = [n \in S |-> UploadedNames]
    /\ remote_cwd = RootDir
    /\ connected = FALSE
    /\ logged_in = FALSE
    /\ calls = <<>>
    /\ cur_backup_dirs = <<>>
    /\ new_backup_dir = <<>>
    /\ type_mapping = EmptyMapping
    /\ dirs_delete = <<>>
    /\ step = 0
    /\ aborted = FALSE
    /\ dlist = <<>>
    /\ host_dir = "dir"
    /\ handler = [class |-> "BackupByFtpApp"]
    /\ server = [kind |-> "ftp"]
    /\ request = [op |-> "_run"]
    /\ result = [status |-> "none"]
    /\ frame = [p \in Procs |-> NotStarted]

\* what a step of process p leaves alone
RaceUnchanged ==
    UNCHANGED <<pc, runs, days, today, copies, simulate, remote_cwd, connected,
                logged_in, cur_backup_dirs, new_backup_dir, type_mapping, dirs_delete,
                step, aborted, dlist, host_dir, handler, server, request, result>>

\* login_ftp(), cwd and dir_list() of the root with the filter for backup
\* directories
RaceDirList(p) ==
    /\ frame[p].pc = "idle"
    /\ \E order \in ListingOrders(DOMAIN remote) :
          frame' = [frame EXCEPT ![p].pc = "decide",
                                 ![p].cur_backup_dirs = CurBackupDirs(order)]
    /\ calls' = calls \o <<Call("connect", <<>>), Call("login", <<>>),
                           Call("cwd", RootDir), Call("dir", <<>>)>>
    /\ UNCHANGED remote
    /\ RaceUnchanged

\* the local variables after the computation on the names found
RaceDecided(f, new) ==
    [f EXCEPT !.pc = "remove", !.new_backup_dir = new,
              !.cur_backup_dirs = Append(f.cur_backup_dirs, new),
              !.dirs_delete =
                  DirsDelete(Append(f.cur_backup_dirs, new),
                             Evict(Classify(today, new, Append(f.cur_backup_dirs, new)),
                                   copies)),
              !.step = 1]

\* the new name, type_mapping, the quota loop and dirs_delete
RaceDecide(p) ==
    /\ frame[p].pc = "decide"
    /\ frame' = [frame EXCEPT ![p] = RaceDecided(frame[p],
                                                 NewBackupDir(today, frame[p].cur_backup_dirs))]
    /\ UNCHANGED <<calls, remote>>
    /\ RaceUnchanged

\* variant: an item that cannot be removed is logged and the pass goes on
RaceRemoveLenient(p) ==
    /\ frame[p].pc = "remove"
    /\ frame[p].step <= Len(frame[p].dirs_delete)
    /\ \E item \in {frame[p].dirs_delete[frame[p].step]} :
          IF item \in DOMAIN remote
          THEN /\ calls' = calls \o RemoveDirCalls(item, SortedSeq(remote[item]))
               /\ remote' = [n \in DOMAIN remote \ {item} |-> remote[n]]
               /\ frame' = [frame EXCEPT ![p].step = @ + 1,
                                         ![p].removed = Append(@, item)]
          ELSE /\ calls' = calls \o RemoveRefusedCalls(item)
               /\ remote' = remote
               /\ frame' = [frame EXCEPT ![p].step = @ + 1]
    /\ RaceUnchanged

\* remove_recursive(item) for the next item of dirs_delete of process p
RaceRemove(p) ==
    /\ frame[p].pc = "remove"
    /\ frame[p].step <= Len(frame[p].dirs_delete)
    /\ \E item \in {frame[p].dirs_delete[frame[p].step]} :
          IF item \in DOMAIN remote
          THEN /\ calls' = calls \o RemoveDirCalls(item, SortedSeq(remote[item]))
               /\ remote' = [n \in DOMAIN remote \ {item} |-> remote[n]]
               /\ frame' = [frame EXCEPT ![p].step = @ + 1,
                                         ![p].removed = Append(@, item)]
          ELSE \* error_perm on cwd, then error_perm on the delete of the item
               /\ calls' = calls \o RemoveRefusedCalls(item)
               /\ remote' = remote
               /\ frame' = [frame EXCEPT ![p].pc = "done", ![p].aborted = TRUE]
    /\ RaceUnchanged

\* ftp.mkd(new_backup_dir) and ftp.cwd(new_backup_dir); MKD is refused with
\* 550 when the name exists
RaceMkd(p) ==
    /\ frame[p].pc = "remove"
    /\ frame[p].step > Len(frame[p].dirs_delete)
    /\ IF frame[p].new_backup_dir \in DOMAIN remote
       THEN /\ calls' = Append(calls, Call("mkd", frame[p].new_backup_dir))
            /\ remote' = remote
            /\ frame' = [frame EXCEPT ![p].pc = "done", ![p].aborted = TRUE]
       ELSE /\ calls' = calls \o <<Call("mkd", frame[p].new_backup_dir),
                                   Call("cwd", frame[p].new_backup_dir)>>
            /\ remote' = [n \in DOMAIN remote \cup {frame[p].new_backup_dir} |->
                            IF n = frame[p].new_backup_dir THEN {} ELSE remote[n]]
            /\ frame' = [frame EXCEPT ![p].pc = "upload", ![p].step = 1]
    /\ RaceUnchanged

\* one local file is transferred; STOR is refused with 550 when the
\* directory of the session is gone
RaceStor(p) ==
    /\ frame[p].pc = "upload"
    /\ frame[p].step <= Len(SortedLocalFiles)
    /\ calls' = Append(calls, Call("stor", WhitespaceSub(SortedLocalFiles[frame[p].step])))
    /\ IF frame[p].new_backup_dir \in DOMAIN remote
       THEN /\ remote' = [remote EXCEPT ![frame[p].new_backup_dir] =
                              @ \cup {WhitespaceSub(SortedLocalFiles[frame[p].step])}]
            /\ frame' = [frame EXCEPT ![p].step = @ + 1]
       ELSE /\ remote' = remote
            /\ frame' = [frame EXCEPT ![p].pc = "done", ![p].aborted = TRUE]
    /\ RaceUnchanged

\* the finally clause, the usage report and post_run
RaceEnd(p) ==
    /\ frame[p].pc = "upload"
    /\ frame[p].step > Len(SortedLocalFiles)
    /\ calls' = calls \o <<Call("cwd", DotDot), Call("dir", <<>>), Call("quit", <<>>)>>
    /\ frame' = [frame EXCEPT ![p].pc = "done"]
    /\ UNCHANGED remote
    /\ RaceUnchanged

NextRace ==
    \E p \in Procs :
        \/ RaceDirList(p)
        \/ RaceDecide(p)
        \/ RaceRemove(p)
        \/ RaceMkd(p)
        \/ RaceStor(p)
        \/ RaceEnd(p)

SpecRace == InitRace /\ [][NextRace]_vars

\* ------------------------------------------------------------------------
\* The SFTP binding: BackupBySftpApp._run and SFTPHandler
\* ------------------------------------------------------------------------

\* the remote entry named after the local host: a directory, a file, or absent
HostDirStates == {"dir", "file", "missing"}

\* socket.gethostname(): "h"
Subdir == <<104>>

\* os.path.join(a, b)
PathJoin(a, b) == a \o <<47>> \o b

InitSftp ==
    /\ InitBase
    /\ host_dir \in HostDirStates
    /\ host_dir # "dir" => DOMAIN remote = {}

\* handler.connect()
SftpConnect ==
    /\ pc = "idle"
    /\ runs < MaxRuns
    /\ connected' = TRUE
    /\ remote_cwd' = RootDir
    /\ calls' = <<Call("ssh_connect", <<>>), Call("open_sftp", <<>>),
                  Call("chdir", RootDir), Call("getcwd", <<>>)>>
    /\ cur_backup_dirs' = <<>>
    /\ new_backup_dir' = <<>>
    /\ type_mapping' = EmptyMapping
    /\ dirs_delete' = <<>>
    /\ step' = 0
    /\ aborted' = FALSE
    /\ pc' = "s_subdir"
    /\ UNCHANGED <<runs, days, today, copies, simulate, remote, logged_in, dlist,
                   host_dir>>
    /\ UNCHANGED hvars

\* exists(subdir), is_dir(subdir) or mkdir(subdir), remote_dir = subdir
SftpEnsureSubdir ==
    /\ pc = "s_subdir"
    /\ IF host_dir = "file"
       THEN \* self.exit(5, msg): the finally clause disconnects
            /\ calls' = calls \o <<Call("stat", Subdir), Call("stat", Subdir)>>
            /\ aborted' = TRUE
            /\ pc' = "s_disconnect"
            /\ UNCHANGED <<host_dir, remote_cwd>>
       ELSE /\ calls' = calls
                    \o (IF host_dir = "dir"
                        THEN <<Call("stat", Subdir), Call("stat", Subdir)>>
                        ELSE <<Call("stat", Subdir), Call("mkdir", Subdir)>>)
                    \o <<Call("chdir", Subdir), Call("getcwd", <<>>)>>
            /\ host_dir' = "dir"
            /\ remote_cwd' = Subdir
            /\ pc' = "s_list"
            /\ UNCHANGED aborted
    /\ UNCHANGED <<runs, days, today, copies, simulate, remote, connected,
                   logged_in, cur_backup_dirs, new_backup_dir, type_mapping,
                   dirs_delete, step, dlist>>
    /\ UNCHANGED hvars

StatCalls(dir, names) == [i \in 1..Len(names) |-> Call("stat", PathJoin(dir, names[i]))]

\* dir_list() of cleanup_old_backupdirs and the filter for backup directories
SftpDirList ==
    /\ pc = "s_list"
    /\ \E order \in ListingOrders(DOMAIN remote) :
          /\ calls' = calls \o <<Call("listdir", <<46>>)>> \o StatCalls(<<46>>, order)
          /\ cur_backup_dirs' = CurBackupDirs(order)
    /\ pc' = "newdir"
    /\ UNCHANGED <<runs, days, today, copies, simulate, remote, remote_cwd,
                   connected, logged_in, new_backup_dir, type_mapping,
                   dirs_delete, step, aborted, dlist, host_dir>>
    /\ UNCHANGED hvars

RECURSIVE SftpRemoveFileCalls(_, _)
\* remove_recursive(entry_path) for the plain files of a directory
SftpRemoveFileCalls(dir, files) ==
    IF files = <<>> THEN <<>>
    ELSE <<Call("stat", PathJoin(dir, Head(files)))>>
            \o (IF simulate THEN <<>> ELSE <<Call("remove", PathJoin(dir, Head(files)))>>)
            \o SftpRemoveFileCalls(dir, Tail(files))

\* one item of remove_recursive(*dirs_delete)
SftpRemoveRecursive ==
    /\ pc = "remove"
    /\ step <= Len(dirs_delete)
    /\ IF RemoveItem \in DOMAIN remote
       THEN /\ calls' = calls
                    \o <<Call("stat", RemoveItem), Call("listdir", RemoveItem)>>
                    \o SftpRemoveFileCalls(RemoveItem, SortedSeq(remote[RemoveItem]))
                    \o (IF simulate THEN <<>> ELSE <<Call("rmdir", RemoveItem)>>)
            /\ remote' = IF simulate THEN remote
                         ELSE [n \in DOMAIN remote \ {RemoveItem} |-> remote[n]]
            /\ step' = step + 1
            /\ UNCHANGED <<pc, aborted>>
       ELSE \* is_dir() is False for a missing path; removing it raises
            /\ calls' = calls \o <<Call("stat", RemoveItem)>>
                    \o (IF simulate THEN <<>> ELSE <<Call("remove", RemoveItem)>>)
            /\ remote' = remote
            /\ IF simulate
               THEN step' = step + 1 /\ UNCHANGED <<pc, aborted>>
               ELSE aborted' = TRUE /\ pc' = "s_disconnect" /\ UNCHANGED step
    /\ UNCHANGED <<runs, days, today, copies, simulate, remote_cwd, connected,
                   logged_in, cur_backup_dirs, new_backup_dir, type_mapping,
                   dirs_delete, dlist, host_dir>>
    /\ UNCHANGED hvars

\* do_backup() (nothing is transferred), remote_dir = subdir, and the call of
\* show_disk_usage(), which SFTPHandler does not define
SftpBackup ==
    /\ pc = "remove"
    /\ step > Len(dirs_delete)
    /\ calls' = calls \o <<Call("chdir", Subdir), Call("getcwd", <<>>)>>
    /\ aborted' = TRUE
    /\ pc' = "s_disconnect"
    /\ UNCHANGED <<runs, days, today, copies, simulate, remote, remote_cwd,
                   connected, logged_in, cur_backup_dirs, new_backup_dir,
                   type_mapping, dirs_delete, step, dlist, host_dir>>
    /\ UNCHANGED hvars

\* handler.disconnect() in the finally clause
SftpDisconnect ==
    /\ pc = "s_disconnect"
    /\ calls' = Append(calls, Call("close", <<>>))
    /\ connected' = FALSE
    /\ runs' = runs + 1
    /\ pc' = "idle"
    /\ UNCHANGED <<days, today, copies, simulate, remote, remote_cwd, logged_in,
                   cur_backup_dirs, new_backup_dir, type_mapping, dirs_delete,
                   step, aborted, dlist, host_dir>>
    /\ UNCHANGED hvars

\* connect() against a server on which open_sftp(), chdir(start_remote_dir) or
\* getcwd() fails: the flag is set after ssh_client.connect(), the error
\* leaves connect() and _run(), whose try ... finally begins after connect()
SftpConnectFails ==
    /\ pc = "idle"
    /\ runs < MaxRuns
    /\ connected' = TRUE
    /\ \E failing \in 2..4 :
          calls' = SubSeq(<<Call("ssh_connect", <<>>), Call("open_sftp", <<>>),
                            Call("chdir", RootDir), Call("getcwd", <<>>)>>, 1, failing)
    /\ cur_backup_dirs' = <<>>
    /\ new_backup_dir' = <<>>
    /\ type_mapping' = EmptyMapping
    /\ dirs_delete' = <<>>
    /\ step' = 0
    /\ aborted' = TRUE
    /\ pc' = "s_failed"
    /\ UNCHANGED <<runs, days, today, copies, simulate, remote, remote_cwd, logged_in,
                   dlist, host_dir>>
    /\ UNCHANGED hvars

\* SFTPHandler.__del__, when the interpreter finalises the handler
SftpDel ==
    /\ pc = "s_failed"
    /\ connected
    /\ calls' = Append(calls, Call("close", <<>>))
    /\ connected' = FALSE
    /\ UNCHANGED <<pc, runs, days, today, copies, simulate, remote, remote_cwd,
                   logged_in, cur_backup_dirs, new_backup_dir, type_mapping,
                   dirs_delete, step, aborted, dlist, host_dir>>
    /\ UNCHANGED hvars

\* the process ends after the error has left _run()
SftpProcessEnds ==
    /\ pc = "s_failed"
    /\ runs' = runs + 1
    /\ pc' = "idle"
    /\ UNCHANGED <<calls, days, today, copies, simulate, remote, remote_cwd, connected,
                   logged_in, cur_backup_dirs, new_backup_dir, type_mapping,
                   dirs_delete, step, aborted, dlist, host_dir>>
    /\ UNCHANGED hvars

NextSftp ==
    \/ AdvanceDay
    \/ SftpConnect
    \/ SftpConnectFails
    \/ SftpDel
    \/ SftpProcessEnds
    \/ SftpEnsureSubdir
    \/ SftpDirList
    \/ RetrieveNewDir
    \/ MapTypes
    \/ ApplyQuota
    \/ SelectDelete
    \/ SftpRemoveRecursive
    \/ SftpBackup
    \/ SftpDisconnect

SpecSftp == InitSftp /\ [][NextSftp]_vars


\* ------------------------------------------------------------------------
\* The handler objects on their own: no backup run is in progress
\* ------------------------------------------------------------------------

NoRun ==
    /\ runs = 0
    /\ days = 0
    /\ today = FirstDate
    /\ copies = CHOOSE c \in CopiesChoices : TRUE
    /\ simulate = FALSE
    /\ remote = [n \in {} |-> {}]
    /\ remote_cwd = RootDir
    /\ connected = FALSE
    /\ logged_in = FALSE
    /\ calls = <<>>
    /\ cur_backup_dirs = <<>>
    /\ new_backup_dir = <<>>
    /\ type_mapping = EmptyMapping
    /\ dirs_delete = <<>>
    /\ step = 0
    /\ aborted = FALSE
    /\ dlist = <<>>
    /\ host_dir = "dir"

\* the method returned
Returned(value) == [status |-> "returned", value |-> value]

\* the method raised an exception of the class
Raised(class) == [status |-> "raised", class |-> class]

\* number of calls of the operation in the log
CountCalls(log, op) == Cardinality({i \in 1..Len(log) : log[i].op = op})

\* ------------------------------------------------------------------------
\* Upload of one file: FTPHandler.put_file and the loop of BackupByFtpApp._run
\* ------------------------------------------------------------------------

\* 'while try_nr < 10' of BackupByFtpApp._run
AppStorTries == 10

\* 'if try_nr >= 10: raise' of put_file and of _run
GiveUpTries == 10

\* how STOR is answered: never, once or always with a 4xx reply (error_temp)
StorAnswers == {"never", "once", "always"}

\* the uploads that are tried: put_file of an FTPHandler with max_stor_attempts
\* from 1 to MaxStorAttempts, and the loop of the application
InitPut ==
    /\ NoRun
    /\ pc = "h_idle"
    /\ \/ \E m \in 1..MaxStorAttempts, li, sim, isfile \in BOOLEAN :
             /\ handler = [class |-> "FTPHandler", logged_in |-> li, simulate |-> sim,
                           max_stor_attempts |-> m]
             /\ request = [op |-> "put_file", is_file |-> isfile]
       \/ \E sim \in BOOLEAN :
             /\ handler = [class |-> "BackupByFtpApp", logged_in |-> TRUE,
                           simulate |-> sim, max_stor_attempts |-> AppStorTries]
             /\ request = [op |-> "put_file", is_file |-> TRUE]
    /\ server \in [kind : {"ftp"}, transient : StorAnswers]
    /\ result = [status |-> "none"]
    /\ frame = [method |-> "none"]

\* put_file up to the loop
PutFileEnter ==
    /\ pc = "h_idle"
    /\ request.op = "put_file"
    /\ IF ~handler.logged_in
       THEN result' = Raised("FTPHandlerError") /\ pc' = "h_done" /\ UNCHANGED frame
       ELSE IF ~request.is_file
       THEN result' = Raised("FTPPutError") /\ pc' = "h_done" /\ UNCHANGED frame
       ELSE IF handler.simulate
       THEN result' = Returned("None") /\ pc' = "h_done" /\ UNCHANGED frame
       ELSE frame' = [method |-> "put_file", try_nr |-> 0] /\ pc' = "put_loop"
                /\ UNCHANGED result
    /\ UNCHANGED <<calls, handler, server, request, rvars>>

\* the answer to the STOR command of the given try
StorFails(try_nr) ==
    \/ server.transient = "always"
    \/ server.transient = "once" /\ try_nr = 1

\* one pass of 'while try_nr < self.max_stor_attempts'
PutFileTry ==
    /\ pc = "put_loop"
    /\ frame.try_nr < handler.max_stor_attempts
    /\ LET try_nr == frame.try_nr + 1
       IN  /\ frame' = [frame EXCEPT !.try_nr = try_nr]
           /\ calls' = Append(calls, Call("stor", <<>>))
           /\ IF ~StorFails(try_nr)
              THEN result' = Returned("None") /\ pc' = "h_done"
              ELSE IF try_nr >= GiveUpTries
              THEN result' = Raised("error_temp") /\ pc' = "h_done"
              ELSE UNCHANGED <<result, pc>>
    /\ UNCHANGED <<handler, server, request, rvars>>

\* the loop condition is false: put_file returns
PutFileLeave ==
    /\ pc = "put_loop"
    /\ frame.try_nr >= handler.max_stor_attempts
    /\ result' = Returned("None")
    /\ pc' = "h_done"
    /\ UNCHANGED <<calls, handler, server, request, frame, rvars>>

NextPut ==
    \/ PutFileEnter
    \/ PutFileTry
    \/ PutFileLeave

SpecPut == InitPut /\ [][NextPut]_vars


\* ------------------------------------------------------------------------
\* EntryPermissions (ftp_dir.py)
\* ------------------------------------------------------------------------

STAT_RUSR == 1
STAT_WUSR == 2
STAT_XUSR == 4
STAT_RGRP == 8
STAT_WGRP == 16
STAT_XGRP == 32
STAT_ROTH == 64
STAT_WOTH == 128
STAT_XOTH == 256
STAT_ISDIR == 512

\* the flags in the order of the groups of re_from_str
FlagOrder ==
    <<STAT_ISDIR, STAT_RUSR, STAT_WUSR, STAT_XUSR, STAT_RGRP, STAT_WGRP, STAT_XGRP,
      STAT_ROTH, STAT_WOTH, STAT_XOTH>>

\* the letters of the groups of re_from_str: d rwx rwx rwx
LetterOrder == <<100, 114, 119, 120, 114, 119, 120, 114, 119, 120>>

\* the ten groups of re_from_str at index a of v, then \s*$
MatchFromStrAt(v, a) ==
    /\ a + 9 <= Len(v)
    /\ \A k \in 1..10 : v[a + k - 1] \in {45, LetterOrder[k], LetterOrder[k] - 32}
    /\ Skip(v, a + 10, WS) = Len(v) + 1

\* re_from_str (re.IGNORECASE) matches v
MatchFromStr(v) == MatchFromStrAt(v, Skip(v, 1, WS))

\* the statement 'perm | STAT_...': the value is computed and not assigned
OrDropped(perm, flag) == perm

RECURSIVE ToIntGroups(_, _, _, _)
\* the ten 'if match.group(k) != "-"' of to_int, from group k on
ToIntGroups(v, a, k, perm) ==
    IF k > 10 THEN perm
    ELSE ToIntGroups(v, a, k + 1,
                     IF v[a + k - 1] # 45 THEN OrDropped(perm, FlagOrder[k]) ELSE perm)

\* value of a digit or letter in int(x, base)
DigitValue(c) ==
    IF c \in 48..57 THEN c - 48 ELSE IF c \in 97..102 THEN c - 87 ELSE c - 55

RECURSIVE ToIntBase(_, _, _, _)
\* int(s[i..j-1], base)
ToIntBase(s, i, j, base) ==
    IF j <= i THEN 0 ELSE base * ToIntBase(s, i, j - 1, base) + DigitValue(s[j - 1])

\* the group '(<digits>+)' from index 'from' to index 'to', then \s*$
GroupTo(v, from, to) ==
    [ok |-> to > from /\ Skip(v, to, WS) = Len(v) + 1, from |-> from, to |-> to]

\* '(<digits>+)\s*$' at index 'from' of v
GroupAt(v, from, digits) == GroupTo(v, from, Skip(v, from, digits))

\* '<letter>(<digits>+)\s*$' at index p of v, with re.IGNORECASE
PrefixedFrom(v, p, letter, digits) ==
    IF p <= Len(v) /\ v[p] \in {letter, letter - 32}
    THEN GroupAt(v, p + 1, digits)
    ELSE [ok |-> FALSE, from |-> p, to |-> p]

\* '0?<letter>(<digits>+)\s*$' at index a of v
PrefixedAt(v, a, letter, digits) ==
    PrefixedFrom(v, IF a <= Len(v) /\ v[a] = 48 THEN a + 1 ELSE a, letter, digits)

\* re_oct and re_hex: '^\s*0?<letter>(<digits>+)\s*$'; [ok, from, to] of the group
MatchPrefixed(v, letter, digits) == PrefixedAt(v, Skip(v, 1, WS), letter, digits)

\* re_dec: '^\s*(\d+)\s*$'; [ok, from, to] of the group
MatchDec(v) == GroupAt(v, Skip(v, 1, WS), DIGIT)

\* the branches of to_int for the matches of re_dec, re_oct and re_hex
ToIntOf(v, dec, oct, hex) ==
    IF dec.ok THEN [ok |-> TRUE, perm |-> ToInt(v, dec.from, dec.to)]
    ELSE IF oct.ok THEN [ok |-> TRUE, perm |-> ToIntBase(v, oct.from, oct.to, 8)]
    ELSE IF hex.ok THEN [ok |-> TRUE, perm |-> ToIntBase(v, hex.from, hex.to, 16)]
    ELSE [ok |-> FALSE, perm |-> 0]

\* EntryPermissions.to_int: [ok, perm]; not ok is the ValueError
PermToInt(v) ==
    IF MatchFromStr(v) THEN [ok |-> TRUE, perm |-> ToIntGroups(v, Skip(v, 1, WS), 1, 0)]
    ELSE ToIntOf(v, MatchDec(v), MatchPrefixed(v, 111, 48..55),
                 MatchPrefixed(v, 120, (48..57) \cup (97..102) \cup (65..70)))

\* '&= 0o1777' on the result of to_int
MaskPermission(r) == [ok |-> r.ok, perm |-> r.perm % 1024]

\* _set_permission of a string: to_int, then '&= 0o1777'
SetPermission(v) == MaskPermission(PermToInt(v))

\* 'permission & flag' is not zero
HasFlag(permission, flag) == (permission \div flag) % 2 = 1

\* EntryPermissions.__str__
PermStr(permission) ==
    [k \in 1..10 |-> IF HasFlag(permission, FlagOrder[k]) THEN LetterOrder[k] ELSE 45]

\* EntryPermissions.is_dir
PermIsDir(permission) == HasFlag(permission, STAT_ISDIR)

\* every string of 'd' or '-' followed by three triples of r, w, x or '-'
SymbolicPerms ==
    {[k \in 1..10 |-> IF k \in S THEN LetterOrder[k] ELSE 45] : S \in SUBSET (1..10)}

\* other permission fields: "lrwxrwxrwx", "0000000755", "0o755", "0x1ff", "rwx"
OtherPerms ==
    { <<108, 114, 119, 120, 114, 119, 120, 114, 119, 120>>,
      <<48, 48, 48, 48, 48, 48, 48, 55, 53, 53>>,
      <<48, 111, 55, 53, 53>>,
      <<48, 120, 49, 102, 102>>,
      <<114, 119, 120>> }

InitPerm ==
    /\ NoRun
    /\ pc = "h_idle"
    /\ handler = [class |-> "EntryPermissions", permission |-> 0]
    /\ server = [kind |-> "none"]
    /\ request \in [op : {"EntryPermissions"}, arg : SymbolicPerms \cup OtherPerms]
    /\ result = [status |-> "none"]
    /\ frame = [method |-> "none"]

\* EntryPermissions(permission) for a string
PermNew ==
    /\ pc = "h_idle"
    /\ request.op = "EntryPermissions"
    /\ \E r \in {SetPermission(request.arg)} :
           IF r.ok
           THEN /\ handler' = [handler EXCEPT !.permission = r.perm]
                /\ pc' = "perm_set"
                /\ UNCHANGED result
           ELSE /\ result' = Raised("ValueError")
                /\ pc' = "h_done"
                /\ UNCHANGED handler
    /\ UNCHANGED <<calls, server, request, frame, rvars>>

\* str(perms) of the object
PermRender ==
    /\ pc = "perm_set"
    /\ result' = Returned(PermStr(handler.permission))
    /\ pc' = "h_done"
    /\ UNCHANGED <<calls, handler, server, request, frame, rvars>>

NextPerm ==
    \/ PermNew
    \/ PermRender

SpecPerm == InitPerm /\ [][NextPerm]_vars


\* ------------------------------------------------------------------------
\* DirEntry (ftp_dir.py) and BackupByFtpApp.dir_list
\* ------------------------------------------------------------------------

MaxRows == 2

NonWS == (0..127) \ WS

RECURSIVE SkipBack(_, _, _)
\* the last index <= j of s whose character is not in C, or 0
SkipBack(s, j, C) == IF j >= 1 /\ s[j] \in C THEN SkipBack(s, j - 1, C) ELSE j

\* s[a..b], empty when a > b
Slice(s, a, b) == IF a > b THEN <<>> ELSE SubSeq(s, a, b)

\* str.strip()
Strip(s) == Slice(s, Skip(s, 1, WS), SkipBack(s, Len(s), WS))

RECURSIVE Fields(_, _)
\* the run of \S+ from a to b and the runs after it
FieldsTo(s, a, b) == <<[from |-> a, to |-> b]>> \o Fields(s, b)

\* the runs of \S+ of s from index a on, which is not white space
FieldsAt(s, a) == IF a > Len(s) THEN <<>> ELSE FieldsTo(s, a, Skip(s, a, NonWS))

\* the [from, to) ranges of the runs of \S+ of s from index i on
Fields(s, i) == FieldsAt(s, Skip(s, i, WS))

\* the range is not empty and holds only digits: \d+
AllDigits(s, f) == f.to > f.from /\ Skip(s, f.from, DIGIT) = f.to

\* re_dir_line matches the stripped line with the fields f
MatchFields(line, f) ==
    /\ Len(f) >= 9
    /\ f[1].from = 1
    /\ f[1].to - f[1].from = 10
    /\ AllDigits(line, f[2])
    /\ AllDigits(line, f[5])

\* re_dir_line matches the stripped line
MatchDirLine(line) == MatchFields(line, Fields(line, 1))

\* the month names of '%b', lower case
MonthNames ==
    <<<<106, 97, 110>>,
      <<102, 101, 98>>,
      <<109, 97, 114>>,
      <<97, 112, 114>>,
      <<109, 97, 121>>,
      <<106, 117, 110>>,
      <<106, 117, 108>>,
      <<97, 117, 103>>,
      <<115, 101, 112>>,
      <<111, 99, 116>>,
      <<110, 111, 118>>,
      <<100, 101, 99>>>>

\* the number of the month with the lower-case name, or 0
MonthNamed(name) ==
    IF \E m \in 1..12 : MonthNames[m] = name
    THEN CHOOSE m \in 1..12 : MonthNames[m] = name
    ELSE 0

\* the number of the month named by s[f.from .. f.to - 1], or 0
MonthOf(s, f) == MonthNamed(Lower(SubSeq(s, f.from, f.to - 1)))

\* one or two digits with a value in lo..hi, as '%d', '%H' and '%M' take them; -1 otherwise
TwoDigits(s, from, to, lo, hi) ==
    IF /\ to - from \in {1, 2}
       /\ Skip(s, from, DIGIT) >= to
       /\ ToInt(s, from, to) >= lo
       /\ ToInt(s, from, to) <= hi
    THEN ToInt(s, from, to)
    ELSE -1

\* strptime(v, '%b %d %Y') succeeds: a month, a day, four digits, a date
MatchOlder(s, fy, month, day) ==
    /\ month > 0 /\ day > 0
    /\ fy.to - fy.from = 4
    /\ AllDigits(s, fy)
    /\ ValidDate(ToInt(s, fy.from, fy.to), month, day)

\* strptime(v, '%b %d %H:%M') succeeds: the date is one of the year 1900
MatchNewer(s, fy, month, day, colon, hour, minute) ==
    /\ month > 0 /\ day > 0
    /\ colon < fy.to /\ s[colon] = 58
    /\ hour >= 0 /\ minute >= 0
    /\ ValidDate(1900, month, day)

\* the second try of the mtime setter
MtimeNewerOf(s, fy, month, day, colon, hour, minute) ==
    IF MatchNewer(s, fy, month, day, colon, hour, minute)
    THEN [ok |-> TRUE,
          mtime |-> [year |-> "cur_year", month |-> month, day |-> day,
                     hour |-> hour, minute |-> minute]]
    ELSE [ok |-> FALSE,
          mtime |-> [year |-> 0, month |-> 0, day |-> 0, hour |-> 0, minute |-> 0]]

\* the two tries of the mtime setter for a month, a day and the index of
\* the first character after the leading digits of the third field
MtimeOf(s, fy, month, day, colon) ==
    IF MatchOlder(s, fy, month, day)
    THEN [ok |-> TRUE,
          mtime |-> [year |-> ToInt(s, fy.from, fy.to), month |-> month, day |-> day,
                     hour |-> 0, minute |-> 0]]
    ELSE MtimeNewerOf(s, fy, month, day, colon,
                      TwoDigits(s, fy.from, colon, 0, 23),
                      TwoDigits(s, colon + 1, fy.to, 0, 59))

\* the mtime setter on the fields fm, fd, fy of s: strptime with '%b %d %Y',
\* then with '%b %d %H:%M'; [ok, mtime], not ok is the ValueError
ParseMtime(s, fm, fd, fy) ==
    MtimeOf(s, fy, MonthOf(s, fm), TwoDigits(s, fd.from, fd.to, 1, 31),
            Skip(s, fy.from, DIGIT))

\* the entry of a matching line, or the ValueError of the perms or mtime setter
EntryOf(line, f, perms, mt) ==
    IF ~perms.ok \/ ~mt.ok THEN [status |-> "ValueError"]
    ELSE [status |-> "entry",
          entry |-> [name |-> SubSeq(line, f[9].from, Len(line)),
                     perms |-> perms.perm,
                     num_hardlinks |-> ToInt(line, f[2].from, f[2].to),
                     user |-> SubSeq(line, f[3].from, f[3].to - 1),
                     group |-> SubSeq(line, f[4].from, f[4].to - 1),
                     size |-> ToInt(line, f[5].from, f[5].to),
                     mtime |-> mt.mtime]]

\* from_dir_line on the stripped line and its fields
FromFields(line, f) ==
    IF ~MatchFields(line, f) THEN [status |-> "none"]
    ELSE EntryOf(line, f, SetPermission(SubSeq(line, f[1].from, f[1].to - 1)),
                 ParseMtime(line, f[6], f[7], f[8]))

\* from_dir_line after line.strip()
FromStripped(line) == FromFields(line, Fields(line, 1))

\* DirEntry.from_dir_line: status "none" is the None of a line that does not
\* match, "ValueError" the error raised by the perms or the mtime setter
FromDirLine(raw) == FromStripped(Strip(raw))

\* DirEntry.is_dir
EntryIsDir(entry) == PermIsDir(entry.perms)

\* perform_dir_output after line.strip(): a blank line is dropped
PerformStripped(line) == IF line = <<>> THEN [status |-> "none"] ELSE FromDirLine(line)

\* the callback perform_dir_output on one line of the reply
PerformLine(raw) == PerformStripped(Strip(raw))

RECURSIVE AppDirListFrom(_, _, _)
\* the lines after line i, whose outcome is r
AppDirListNext(lines, i, acc, r) ==
    IF r.status = "ValueError" THEN [ok |-> FALSE, dlist |-> acc]
    ELSE AppDirListFrom(lines, i + 1,
                        IF r.status = "entry" THEN Append(acc, r.entry) ELSE acc)

\* the callback perform_dir_output over the lines i.. of the reply:
\* [ok, dlist], not ok is the ValueError that leaves ftp.dir and dir_list
AppDirListFrom(lines, i, acc) ==
    IF i > Len(lines) THEN [ok |-> TRUE, dlist |-> acc]
    ELSE AppDirListNext(lines, i, acc, PerformLine(lines[i]))

\* BackupByFtpApp.dir_list on the lines of the server's reply
AppDirList(lines) == AppDirListFrom(lines, 1, <<>>)

\* a line of a long listing
DirLine(perms, size, mtime, name) ==
    perms \o <<32, 32, 32, 49, 32, 117, 115, 101, 114, 32, 103, 114, 111, 117, 112, 32>> \o DecStr(size) \o <<32>> \o mtime \o <<32>> \o name

PermsFile == <<45, 114, 119, 45, 114, 45, 45, 114, 45, 45>>

PermsDir == <<100, 114, 119, 120, 114, 45, 120, 114, 45, 120>>

PermsLink == <<108, 114, 119, 120, 114, 119, 120, 114, 119, 120>>

MtimeOlder == <<74, 97, 110, 32, 48, 53, 32, 50, 48, 49, 53>>

MtimeNewer == <<70, 101, 98, 32, 49, 48, 32, 49, 50, 58, 51, 48>>

\* the lines a server may send: two good ones, a blank one, "total 8",
\* a symbolic link, a permission field in octal, two bad time stamps
ListingLines ==
    { DirLine(PermsFile, 120, MtimeOlder, <<97, 46, 116, 120, 116>>),
      DirLine(PermsDir, 4096, MtimeNewer, <<109, 121, 32, 100, 105, 114>>),
      <<32, 32>>,
      <<116, 111, 116, 97, 108, 32, 56>>,
      DirLine(PermsLink, 7, MtimeOlder, <<108, 110, 32, 45, 62, 32, 97, 46, 116, 120, 116>>),
      DirLine(<<48, 48, 48, 48, 48, 48, 48, 54, 52, 52>>, 5, MtimeOlder, <<98>>),
      DirLine(PermsFile, 5, <<70, 111, 111, 32, 48, 53, 32, 50, 48, 49, 53>>, <<99>>),
      DirLine(PermsFile, 5, <<70, 101, 98, 32, 51, 48, 32, 50, 48, 49, 53>>, <<100>>) }

InitList ==
    /\ NoRun
    /\ pc = "h_idle"
    /\ handler = [class |-> "BackupByFtpApp", logged_in |-> TRUE]
    /\ \E n \in 0..MaxRows : server \in [kind : {"ftp"}, lines : [1..n -> ListingLines]]
    /\ request = [op |-> "dir_list"]
    /\ result = [status |-> "none"]
    /\ frame = [method |-> "none"]

\* dir_list sends the LIST command
ListEnter ==
    /\ pc = "h_idle"
    /\ request.op = "dir_list"
    /\ calls' = Append(calls, Call("dir", <<>>))
    /\ frame' = [method |-> "dir_list", i |-> 1, dlist |-> <<>>]
    /\ pc' = "list_lines"
    /\ UNCHANGED <<handler, server, request, result, rvars>>

\* ftplib hands the next line of the reply to perform_dir_output
PerformDirOutput ==
    /\ pc = "list_lines"
    /\ frame.i <= Len(server.lines)
    /\ \E r \in {AppDirListFrom(<<server.lines[frame.i]>>, 1, frame.dlist)} :
           IF r.ok
           THEN /\ frame' = [frame EXCEPT !.i = @ + 1, !.dlist = r.dlist]
                /\ UNCHANGED <<pc, result>>
           ELSE /\ result' = Raised("ValueError")
                /\ pc' = "h_done"
                /\ UNCHANGED frame
    /\ UNCHANGED <<calls, handler, server, request, rvars>>

\* the reply is exhausted: dir_list returns dlist
ListLeave ==
    /\ pc = "list_lines"
    /\ frame.i > Len(server.lines)
    /\ result' = Returned(frame.dlist)
    /\ pc' = "h_done"
    /\ UNCHANGED <<calls, handler, server, request, frame, rvars>>

NextList ==
    \/ ListEnter
    \/ PerformDirOutput
    \/ ListLeave

SpecList == InitList /\ [][NextList]_vars


\* ------------------------------------------------------------------------
\* Remote trees: remove_recursive, remove and disk_usage
\* ------------------------------------------------------------------------

MaxNodes == 4

\* the item handed to the operations, in the current remote directory
Item == <<50, 48, 50, 52, 45, 48, 49, 45, 48, 49, 95, 48, 48>>

\* the paths a remote tree may hold: Item, Item/f, Item/sub, Item/sub/g,
\* Item/sub/deep, Item/sub/deep/h, Item/tmp
TreePaths ==
    { <<Item>>,
      <<Item, <<102>>>>,
      <<Item, <<115, 117, 98>>>>,
      <<Item, <<115, 117, 98>>, <<103>>>>,
      <<Item, <<115, 117, 98>>, <<100, 101, 101, 112>>>>,
      <<Item, <<115, 117, 98>>, <<100, 101, 101, 112>>, <<104>>>>,
      <<Item, <<116, 109, 112>>>> }

Parent(path) == SubSeq(path, 1, Len(path) - 1)

IsPrefix(p, q) == Len(p) <= Len(q) /\ SubSeq(q, 1, Len(p)) = p

\* the size the server reports for a node
SizeOf(path, kind) == IF kind = "dir" THEN 4096 ELSE 100 * Len(path) + Len(path[Len(path)])

IsDirAt(tree, path) == path = <<>> \/ \E n \in tree : n.path = path /\ n.kind = "dir"

IsFileAt(tree, path) == \E n \in tree : n.path = path /\ n.kind = "file"

ChildrenOf(tree, path) == {n \in tree : Len(n.path) = Len(path) + 1 /\ Parent(n.path) = path}

\* the trees of at most MaxNodes nodes that hold Item
Trees ==
    { T \in SUBSET [path : TreePaths, kind : {"dir", "file"}] :
        /\ Cardinality(T) <= MaxNodes
        /\ \E n \in T : n.path = <<Item>>
        /\ \A n, k \in T : n.path = k.path => n = k
        /\ \A n \in T : IsDirAt(T, Parent(n.path)) }

\* the components of a pathname with a '/' at index i, or without one
RECURSIVE SplitPath(_)
SplitAt(name, i) ==
    IF i > Len(name) THEN <<name>>
    ELSE <<SubSeq(name, 1, i - 1)>> \o SplitPath(SubSeq(name, i + 1, Len(name)))

\* the components of a pathname written with '/'
SplitPath(name) == SplitAt(name, Skip(name, 1, (0..127) \ {47}))

\* os.path.join(a, b)
JoinPath(a, b) == a \o <<47>> \o b

\* the node a server addresses by a pathname relative to its directory
Resolve(cwd, name) ==
    IF name = DotDot THEN (IF cwd = <<>> THEN <<>> ELSE Parent(cwd))
    ELSE cwd \o SplitPath(name)

\* A machine is the remote side together with the client's view of a call
\* in progress: the tree, the server's directory, the paths removed so far,
\* the transport calls, the errors given to handle_error and the exception
\* in flight ("none" when there is none).
Machine(tree, cwd) ==
    [tree |-> tree, cwd |-> cwd, removed |-> <<>>, calls |-> <<>>, handled |-> <<>>,
     raised |-> "none"]

Sent(m, op, arg) == [m EXCEPT !.calls = Append(@, Call(op, arg))]

Raise(m, class) == [m EXCEPT !.raised = class]

\* handle_error: the error is reported and execution goes on
HandleError(m, class) == [m EXCEPT !.handled = Append(@, class), !.raised = "none"]

Unlink(m, path) ==
    [m EXCEPT !.tree = {n \in @ : n.path # path}, !.removed = Append(@, path)]

\* the server's answer to CWD for the node t
CwdTo(m, t) == IF IsDirAt(m.tree, t) THEN [m EXCEPT !.cwd = t] ELSE Raise(m, "error_perm")

\* the node t is a plain file that is in use: the server answers 450
IsBusyAt(tree, path) == \E n \in tree : n.path = path /\ n.kind = "busy"

\* the server's answer to DELE for the node t: 250, 450 (error_temp) for a
\* file in use, 550 (error_perm) for everything else, a file the user may not
\* delete (kind "locked") included
DeleteAt(m, t) ==
    IF IsFileAt(m.tree, t) THEN Unlink(m, t)
    ELSE IF IsBusyAt(m.tree, t) THEN Raise(m, "error_temp")
    ELSE Raise(m, "error_perm")

\* the server's answer to RMD for the node t
RmdAt(m, t) ==
    IF t # <<>> /\ IsDirAt(m.tree, t) /\ ChildrenOf(m.tree, t) = {}
    THEN Unlink(m, t)
    ELSE Raise(m, "error_perm")

\* ftplib.FTP.cwd: 550 (error_perm) unless the target is a directory
FtpCwd(m, name) == CwdTo(Sent(m, "cwd", name), Resolve(m.cwd, name))

\* ftplib.FTP.delete: 550 unless the target is a plain file
FtpDelete(m, name) == DeleteAt(Sent(m, "delete", name), Resolve(m.cwd, name))

\* ftplib.FTP.rmd: 550 unless the target is an empty directory
FtpRmd(m, name) == RmdAt(Sent(m, "rmd", name), Resolve(m.cwd, name))

\* the line of the long listing for a node
LineOf(n) ==
    DirLine(IF n.kind = "dir" THEN PermsDir ELSE PermsFile, SizeOf(n.path, n.kind),
            MtimeOlder, n.path[Len(n.path)])

\* the lines for the children S in the order of the names
LinesInOrder(S, names) ==
    [i \in 1..Len(names) |-> LineOf(CHOOSE n \in S : n.path[Len(n.path)] = names[i])]

\* the names of the nodes S, sorted
NamesOf(S) == SortedSeq({n.path[Len(n.path)] : n \in S})

\* the reply to LIST for a directory: one line for each child, by name
FtpDirLines(tree, path) ==
    LinesInOrder(ChildrenOf(tree, path), NamesOf(ChildrenOf(tree, path)))

\* dir_list with the result r of the callbacks
DirListResult(m, r) ==
    [m |-> IF r.ok THEN m ELSE Raise(m, "ValueError"), dlist |-> r.dlist]

\* BackupByFtpApp.dir_list(item_name) and FTPHandler.dir_list(item_name):
\* [m, dlist]; a ValueError of a line is in flight in m
DirListOf(m, name) ==
    DirListResult(Sent(m, "dir", name),
                  AppDirList(FtpDirLines(m.tree, IF name = <<>> THEN m.cwd
                                                 ELSE Resolve(m.cwd, name))))

IsDots(name) == name = <<46>> \/ name = DotDot

RECURSIVE AppRemoveRecursive(_, _, _)
\* the except clauses of BackupByFtpApp.remove_recursive(item)
AppRemoveExcept(m, item, sim) ==
    IF m.raised = "none" THEN m
    ELSE IF m.raised = "error_perm"
    THEN (IF sim THEN Raise(m, "none") ELSE FtpDelete(Raise(m, "none"), item))
    ELSE HandleError(m, m.raised)

\* the body of the loop 'for entry in dlist' of BackupByFtpApp.remove_recursive
AppRemoveEntry(m, entry, sim) ==
    IF IsDots(entry.name) THEN m
    ELSE IF EntryIsDir(entry) THEN AppRemoveRecursive(m, entry.name, sim)
    ELSE IF sim THEN m
    ELSE FtpDelete(m, entry.name)

RECURSIVE AppRemoveEntries(_, _, _, _)
\* the loop 'for entry in dlist' of BackupByFtpApp.remove_recursive from entry i on
AppRemoveEntries(m, entries, i, sim) ==
    IF i > Len(entries) \/ m.raised # "none" THEN m
    ELSE AppRemoveEntries(AppRemoveEntry(m, entries[i], sim), entries, i + 1, sim)

\* the try block after ftp.cwd('..'): ftp.rmd(item)
AppRemoveRmd(m, item, sim) ==
    IF m.raised # "none" \/ sim THEN m ELSE FtpRmd(m, item)

\* the try block after the loop: ftp.cwd('..')
AppRemoveLeave(m, item, sim) ==
    IF m.raised # "none" THEN m ELSE AppRemoveRmd(FtpCwd(m, DotDot), item, sim)

\* the try block after dir_list(): the loop over the entries
AppRemoveListed(l, item, sim) ==
    IF l.m.raised # "none" THEN l.m
    ELSE AppRemoveLeave(AppRemoveEntries(l.m, l.dlist, 1, sim), item, sim)

\* the try block after ftp.cwd(item): dir_list()
AppRemoveEntered(m, item, sim) ==
    IF m.raised # "none" THEN m ELSE AppRemoveListed(DirListOf(m, <<>>), item, sim)

\* BackupByFtpApp.remove_recursive(item)
AppRemoveRecursive(m, item, sim) ==
    AppRemoveExcept(AppRemoveEntered(FtpCwd(m, item), item, sim), item, sim)

\* an error_perm of the server becomes an FTPCwdError
AsCwdError(m) == IF m.raised = "error_perm" THEN Raise(m, "FTPCwdError") ELSE m

\* FTPHandler.cwd
HandlerCwd(m, name) == AsCwdError(FtpCwd(m, name))

\* FTPHandler.remove(recursive, *items) as its own code calls it:
\* 'self.remove(name)' binds name to recursive and leaves items empty,
\* 'self.remove(name, recursive=True)' gives recursive two values
HandlerRemoveNoItems(m) == HandleError(m, "FTPHandlerError")

\* the body of the loop 'for entry in dlist' of FTPHandler.remove
HandlerRemoveEntry(m, entry) ==
    IF IsDots(entry.name) THEN m
    ELSE IF EntryIsDir(entry) THEN Raise(m, "TypeError")
    ELSE HandlerRemoveNoItems(m)

RECURSIVE HandlerRemoveEntries(_, _, _)
\* the loop 'for entry in dlist' of FTPHandler.remove from entry i on
HandlerRemoveEntries(m, entries, i) ==
    IF i > Len(entries) \/ m.raised # "none" THEN m
    ELSE HandlerRemoveEntries(HandlerRemoveEntry(m, entries[i]), entries, i + 1)

\* the except clauses of FTPHandler.remove
HandlerRemoveExcept(m) ==
    IF m.raised = "none" THEN m
    ELSE IF m.raised = "error_perm" THEN HandlerRemoveNoItems(Raise(m, "none"))
    ELSE HandleError(m, m.raised)

\* the try block after cwd('..'): ftp.rmd(item)
HandlerRemoveRmd(m, item, sim) ==
    IF m.raised # "none" \/ sim THEN m ELSE FtpRmd(m, item)

\* the try block after the loop: cwd('..')
HandlerRemoveLeave(m, item, sim) ==
    IF m.raised # "none" THEN m ELSE HandlerRemoveRmd(HandlerCwd(m, DotDot), item, sim)

\* the try block after dir_list(): the loop over the entries
HandlerRemoveListed(l, item, sim) ==
    IF l.m.raised # "none" THEN l.m
    ELSE HandlerRemoveLeave(HandlerRemoveEntries(l.m, l.dlist, 1), item, sim)

\* the try block after cwd(item): dir_list()
HandlerRemoveEntered(m, item, sim) ==
    IF m.raised # "none" THEN m ELSE HandlerRemoveListed(DirListOf(m, <<>>), item, sim)

\* FTPHandler.remove(True, item)
HandlerRemove(m, item, logged, sim) ==
    IF ~logged THEN Raise(m, "FTPRemoveError")
    ELSE HandlerRemoveExcept(HandlerRemoveEntered(HandlerCwd(m, item), item, sim))

\* paramiko's listdir: the names in a directory
SftpListdir(tree, path) == NamesOf(ChildrenOf(tree, path))

\* the server's answer to rmdir for the node t
SftpRmdirAt(m, t) ==
    IF t # <<>> /\ IsDirAt(m.tree, t) /\ ChildrenOf(m.tree, t) = {}
    THEN Unlink(m, t)
    ELSE Raise(m, "IOError")

\* the server's answer to remove for the node t
SftpRemoveAt(m, t) == IF IsFileAt(m.tree, t) THEN Unlink(m, t) ELSE Raise(m, "IOError")

\* paramiko's rmdir: fails unless the target is an empty directory
SftpRmdir(m, name) == SftpRmdirAt(Sent(m, "rmdir", name), Resolve(m.cwd, name))

\* paramiko's remove: fails unless the target is a plain file
SftpRemove(m, name) == SftpRemoveAt(Sent(m, "remove", name), Resolve(m.cwd, name))

RECURSIVE SftpRemoveItem(_, _, _)
RECURSIVE SftpRemoveEntries(_, _, _, _, _)
\* the loop 'for entry in dlist' of SFTPHandler.remove_recursive from entry i on
SftpRemoveEntries(m, ipath, entries, i, sim) ==
    IF i > Len(entries) \/ m.raised # "none" THEN m
    ELSE SftpRemoveEntries(SftpRemoveItem(m, JoinPath(ipath, entries[i]), sim),
                           ipath, entries, i + 1, sim)

\* after the loop over the entries of a directory: rmdir
SftpRemoveDir(m, ipath, sim) ==
    IF m.raised # "none" \/ sim THEN m ELSE SftpRmdir(m, ipath)

\* the body of 'for item in items' for the node t that ipath names
SftpRemoveNode(m, ipath, t, sim) ==
    IF IsDirAt(m.tree, t)
    THEN SftpRemoveDir(SftpRemoveEntries(Sent(Sent(m, "stat", ipath), "listdir", ipath),
                                         ipath, SftpListdir(m.tree, t), 1, sim),
                       ipath, sim)
    ELSE IF sim THEN Sent(m, "stat", ipath)
    ELSE SftpRemove(Sent(m, "stat", ipath), ipath)

\* the body of 'for item in items' of SFTPHandler.remove_recursive
SftpRemoveItem(m, ipath, sim) ==
    IF IsDots(ipath) THEN m ELSE SftpRemoveNode(m, ipath, Resolve(m.cwd, ipath), sim)

\* SFTPHandler.remove_recursive(item)
SftpRemoveTree(m, item, conn, sim) ==
    IF ~conn THEN Raise(m, "SFTPHandlerError") ELSE SftpRemoveItem(m, item, sim)

RECURSIVE DiskUsage(_, _, _)
RECURSIVE DiskUsageEntries(_, _, _, _, _)
\* after the usage r of entry i: 'total += list_item_size' and the next entry
DiskUsageNext(r, item, entries, i, total) ==
    DiskUsageEntries(r.m, item, entries, i + 1, total + r.total)

\* the body of the loop 'for list_item in item_dir_list': [m, total] of the entry
DiskUsageEntry(m, item, entry) ==
    IF IsDots(entry.name) THEN [m |-> m, total |-> 0]
    ELSE DiskUsage(m, [entry EXCEPT !.name = JoinPath(item.name, @)], TRUE)

\* the loop 'for list_item in item_dir_list' of disk_usage from entry i on:
\* [m, total]
DiskUsageEntries(m, item, entries, i, total) ==
    IF i > Len(entries) \/ m.raised # "none" THEN [m |-> m, total |-> total]
    ELSE DiskUsageNext(DiskUsageEntry(m, item, entries[i]), item, entries, i, total)

\* disk_usage of a directory after dir_list(item.name)
DiskUsageListed(l, item) == DiskUsageEntries(l.m, item, l.dlist, 1, 0)

\* BackupByFtpApp.disk_usage(item): [m, total]
DiskUsage(m, item, logged) ==
    IF ~logged THEN [m |-> Raise(m, "FTPHandlerError"), total |-> 0]
    ELSE IF ~EntryIsDir(item) THEN [m |-> m, total |-> item.size]
    ELSE DiskUsageListed(DirListOf(m, item.name), item)

TreeBindings ==
    [class : {"BackupByFtpApp"}, logged_in : BOOLEAN, simulate : BOOLEAN,
     op : {"remove_recursive", "disk_usage"}]
    \cup [class : {"FTPHandler"}, logged_in : BOOLEAN, simulate : BOOLEAN, op : {"remove"}]
    \cup [class : {"SFTPHandler"}, connected : BOOLEAN, simulate : BOOLEAN,
          op : {"remove_recursive"}]

InitTree ==
    /\ NoRun
    /\ pc = "h_idle"
    /\ \E b \in TreeBindings :
          /\ handler = [x \in DOMAIN b \ {"op"} |-> b[x]]
          /\ request = [op |-> b.op, item |-> Item]
    /\ \E T \in Trees :
          server = [kind |-> IF handler.class = "SFTPHandler" THEN "sftp" ELSE "ftp",
                    tree |-> T, cwd |-> <<>>, removed |-> <<>>]
    /\ result = [status |-> "none"]
    /\ frame = [method |-> "none"]

\* the state after a call that ran on machine m
Finish(m, value) ==
    /\ calls' = calls \o m.calls
    /\ server' = [server EXCEPT !.tree = m.tree, !.cwd = m.cwd, !.removed = @ \o m.removed]
    /\ result' = IF m.raised = "none" THEN Returned(value) ELSE Raised(m.raised)
    /\ frame' = [method |-> request.op, handled |-> m.handled]
    /\ pc' = "h_done"
    /\ UNCHANGED <<handler, request, rvars>>

\* app.remove_recursive(item)
TreeAppRemoveRecursive ==
    /\ pc = "h_idle"
    /\ handler.class = "BackupByFtpApp"
    /\ request.op = "remove_recursive"
    /\ Finish(AppRemoveRecursive(Machine(server.tree, server.cwd), request.item,
                                 handler.simulate), "None")

\* handler.remove(True, item)
TreeHandlerRemove ==
    /\ pc = "h_idle"
    /\ handler.class = "FTPHandler"
    /\ request.op = "remove"
    /\ Finish(HandlerRemove(Machine(server.tree, server.cwd), request.item,
                            handler.logged_in, handler.simulate), "None")

\* handler.remove_recursive(item)
TreeSftpRemoveRecursive ==
    /\ pc = "h_idle"
    /\ handler.class = "SFTPHandler"
    /\ request.op = "remove_recursive"
    /\ Finish(SftpRemoveTree(Machine(server.tree, server.cwd), request.item,
                             handler.connected, handler.simulate), "None")

\* the entry of the item in the listing of the current directory, as
\* show_usage hands it to disk_usage
TreeListItem ==
    /\ pc = "h_idle"
    /\ request.op = "disk_usage"
    /\ \E l \in {DirListOf(Machine(server.tree, server.cwd), <<>>)} :
           /\ calls' = calls \o l.m.calls
           /\ frame' = [method |-> "show_usage", dlist |-> l.dlist]
    /\ pc' = "usage_listed"
    /\ UNCHANGED <<handler, server, request, result, rvars>>

\* app.disk_usage(entry)
TreeDiskUsage ==
    /\ pc = "usage_listed"
    /\ \E i \in 1..Len(frame.dlist) :
          /\ frame.dlist[i].name = request.item
          /\ \E r \in {DiskUsage(Machine(server.tree, server.cwd), frame.dlist[i],
                                 handler.logged_in)} :
                Finish(r.m, r.total)

NextTree ==
    \/ TreeAppRemoveRecursive
    \/ TreeHandlerRemove
    \/ TreeSftpRemoveRecursive
    \/ TreeListItem
    \/ TreeDiskUsage

SpecTree == InitTree /\ [][NextTree]_vars


\* ------------------------------------------------------------------------
\* The pruning pass of BackupByFtpApp._run on remote trees
\* ------------------------------------------------------------------------

\* "2023-12-29_00" and "2023-12-30_00": backup directories of the two days
\* before FirstDate
OlderDir == <<50, 48, 50, 51, 45, 49, 50, 45, 50, 57, 95, 48, 48>>
NewerDir == <<50, 48, 50, 51, 45, 49, 50, 45, 51, 48, 95, 48, 48>>

\* what a backup directory may hold: a file 'f' that is removable, not
\* removable by this user ("locked") or in use ("busy"), and in the older
\* one a sub-directory 'sub'
PruneTrees ==
    { {n \in { [path |-> <<OlderDir>>, kind |-> "dir"],
               [path |-> <<NewerDir>>, kind |-> "dir"],
               [path |-> <<OlderDir, <<102>>>>, kind |-> ka],
               [path |-> <<OlderDir, <<115, 117, 98>>>>, kind |-> ks],
               [path |-> <<NewerDir, <<102>>>>, kind |-> kb] } : n.kind # "absent"} :
        ka \in {"absent", "file", "locked", "busy"}, ks \in {"absent", "dir"},
        kb \in {"absent", "file", "locked", "busy"} }

\* the server's answer to MKD for the node t
MkdAt(m, t) ==
    IF IsDirAt(m.tree, Parent(t)) /\ ~\E n \in m.tree : n.path = t
    THEN [m EXCEPT !.tree = @ \cup {[path |-> t, kind |-> "dir"]}]
    ELSE Raise(m, "error_perm")

\* ftplib.FTP.mkd: 550 unless the parent is a directory without such an entry
FtpMkd(m, name) == MkdAt(Sent(m, "mkd", name), Resolve(m.cwd, name))

\* the names of the entries of a listing
EntryNames(entries) == [i \in 1..Len(entries) |-> entries[i].name]

\* _run after login_ftp() and ftp.cwd(ftp_remote_dir)
InitPrune ==
    /\ pc = "list"
    /\ runs = 0
    /\ days = 0
    /\ today = FirstDate
    /\ copies \in CopiesChoices
    /\ simulate \in BOOLEAN
    /\ remote = [n \in {} |-> {}]
    /\ remote_cwd = RootDir
    /\ connected = TRUE
    /\ logged_in = TRUE
    /\ calls = <<Call("connect", <<>>), Call("login", <<>>), Call("cwd", RootDir)>>
    /\ cur_backup_dirs = <<>>
    /\ new_backup_dir = <<>>
    /\ type_mapping = EmptyMapping
    /\ dirs_delete = <<>>
    /\ step = 0
    /\ aborted = FALSE
    /\ dlist = <<>>
    /\ host_dir = "dir"
    /\ handler = [class |-> "BackupByFtpApp"]
    /\ \E T \in PruneTrees : server = [kind |-> "ftp", tree |-> T, cwd |-> <<>>, removed |-> <<>>]
    /\ request = [op |-> "_run"]
    /\ result = [status |-> "none"]
    /\ frame = [method |-> "_run"]

\* dir_list() of the remote root and the filter for backup directories
PruneDirList ==
    /\ pc = "list"
    /\ \E l \in {DirListOf(Machine(server.tree, server.cwd), <<>>)} :
          /\ calls' = calls \o l.m.calls
          /\ cur_backup_dirs' = CurBackupDirs(EntryNames(l.dlist))
    /\ pc' = "newdir"
    /\ UNCHANGED <<runs, days, today, copies, simulate, remote, remote_cwd,
                   connected, logged_in, new_backup_dir, type_mapping,
                   dirs_delete, step, aborted, dlist, host_dir>>
    /\ UNCHANGED hvars

\* the state after a statement of _run that ran on machine m: an exception
\* in flight leaves _run
PruneAfter(m, method, next) ==
    /\ calls' = calls \o m.calls
    /\ server' = [server EXCEPT !.tree = m.tree, !.cwd = m.cwd, !.removed = @ \o m.removed]
    /\ result' = IF m.raised = "none" THEN Returned("None") ELSE Raised(m.raised)
    /\ frame' = [method |-> method, handled |-> m.handled, cwd |-> server.cwd]
    /\ aborted' = (m.raised # "none")
    /\ pc' = IF m.raised = "none" THEN next ELSE "post_run"
    /\ UNCHANGED <<runs, days, today, copies, simulate, remote, remote_cwd,
                   connected, logged_in, cur_backup_dirs, new_backup_dir,
                   type_mapping, dirs_delete, dlist, host_dir, handler, request>>

\* 'for item in dirs_delete: self.remove_recursive(item)', one item
PruneRemove ==
    /\ pc = "remove"
    /\ step <= Len(dirs_delete)
    /\ \E m \in {AppRemoveRecursive(Machine(server.tree, server.cwd), RemoveItem, simulate)} :
          /\ PruneAfter(m, "remove_recursive", "remove")
          /\ step' = IF m.raised = "none" THEN step + 1 ELSE step

\* 'if not self.simulate: self.ftp.mkd(new_backup_dir)'
PruneMkd ==
    /\ pc = "remove"
    /\ step > Len(dirs_delete)
    /\ \E m \in {IF simulate THEN Machine(server.tree, server.cwd)
                 ELSE FtpMkd(Machine(server.tree, server.cwd), new_backup_dir)} :
          PruneAfter(m, "mkd", "made")
    /\ UNCHANGED step

NextPrune ==
    \/ PruneDirList
    \/ RetrieveNewDir
    \/ MapTypes
    \/ ApplyQuota
    \/ SelectDelete
    \/ PruneRemove
    \/ PruneMkd
    \/ PostRun

SpecPrune == InitPrune /\ [][NextPrune]_vars

\* ------------------------------------------------------------------------
\* The upload phase of BackupByFtpApp._run: the try ... finally around the
\* change into the new directory and the loop over the local files
\* ------------------------------------------------------------------------

\* names in the local directory: "a b", "a_b", "a  b" and "c"
UploadNames == {<<97, 32, 98>>, <<97, 95, 98>>, <<97, 32, 32, 98>>, <<99>>}

\* the local directories that are tried: the regular files and at most one
\* sub-directory, which is not transferred
LocalDirs ==
    {[files |-> F, dirs |-> D] : F \in SUBSET UploadNames, D \in SUBSET {<<100>>}}

\* the size of a local file, in blocks of storbinary (a block for each character
\* of its name)
BlocksOf(name) == Len(name)

\* sorted(local_files, key=str.lower)
SortedLocal(dir) == SortedSeq(dir.files \cup dir.dirs)

\* how the server and the transport answer one STOR: the file is stored; a
\* 4xx reply before any data are read; a 4xx reply to a transfer that was
\* cut short, after the client has read the file to its end; a 5xx reply; a
\* socket timeout
StorOutcomes == {"stored", "temp_refused", "temp_aborted", "perm", "timeout"}

\* the exception storbinary raises for an answer
StorError(answer) ==
    CASE answer \in {"temp_refused", "temp_aborted"} -> "error_temp"
      [] answer = "perm" -> "error_perm"
      [] answer = "timeout" -> "timeout"
      [] OTHER -> "none"

\* the position of the open file after storbinary: fp.read() has reached the
\* end of the file unless the command was refused before the transfer
ReadTo(answer, pos, size) ==
    IF answer \in {"stored", "temp_aborted"} THEN size ELSE pos

\* variant: the except clause catches every exception of storbinary
CaughtAny(class) == TRUE

\* 'except ftplib.error_temp'
Caught(class) == class = "error_temp"

InitUpload ==
    /\ pc = "up_enter"
    /\ runs = 0
    /\ days = 0
    /\ today = FirstDate
    /\ copies = CHOOSE c \in CopiesChoices : TRUE
    /\ simulate \in BOOLEAN
    /\ remote = [n \in {} |-> {}]
    /\ remote_cwd = RootDir
    /\ connected = TRUE
    /\ logged_in = TRUE
    /\ new_backup_dir = BackupDirTpl(FirstDate, 0)
    /\ calls = IF simulate THEN <<>> ELSE <<Call("mkd", new_backup_dir)>>
    /\ cur_backup_dirs = <<new_backup_dir>>
    /\ type_mapping = EmptyMapping
    /\ dirs_delete = <<>>
    /\ step = 1
    /\ aborted = FALSE
    /\ dlist = <<>>
    /\ host_dir = "dir"
    /\ handler = [class |-> "BackupByFtpApp"]
    /\ server = [kind |-> "ftp", stored |-> <<>>]
    /\ \E dir \in LocalDirs :
          request = [op |-> "_run", local_dir |-> dir, local_files |-> SortedLocal(dir)]
    /\ result = [status |-> "none"]
    /\ frame = [method |-> "_run", try_nr |-> 0, pos |-> 0, transient |-> 0, at |-> 0]

\* 'if not self.simulate: self.ftp.cwd(new_backup_dir)': accepted or refused
UploadEnter ==
    /\ pc = "up_enter"
    /\ IF simulate
       THEN pc' = "up_file" /\ UNCHANGED <<calls, remote_cwd, result>>
       ELSE /\ calls' = Append(calls, Call("cwd", new_backup_dir))
            /\ \/ remote_cwd' = new_backup_dir /\ pc' = "up_file" /\ UNCHANGED result
               \/ result' = Raised("error_perm") /\ pc' = "up_finally"
                    /\ UNCHANGED remote_cwd
    /\ UNCHANGED <<runs, days, today, copies, simulate, remote, connected, logged_in,
                   cur_backup_dirs, new_backup_dir, type_mapping, dirs_delete, step,
                   aborted, dlist, host_dir, handler, server, request, frame>>

\* the body of 'for local_file in sorted(local_files)' up to the loop of tries
UploadFile ==
    /\ pc = "up_file"
    /\ step <= Len(request.local_files)
    /\ IF request.local_files[step] \notin request.local_dir.files \/ simulate
       THEN step' = step + 1 /\ UNCHANGED <<pc, frame>>
       ELSE /\ frame' = [method |-> "_run", try_nr |-> 0, pos |-> 0, transient |-> 0,
                         at |-> 0]
            /\ pc' = "up_stor"
            /\ UNCHANGED step
    /\ UNCHANGED <<runs, days, today, copies, simulate, remote, remote_cwd, connected,
                   logged_in, calls, cur_backup_dirs, new_backup_dir, type_mapping,
                   dirs_delete, aborted, dlist, host_dir, handler, server, request,
                   result>>

\* the outcome of one pass of 'while try_nr < 10' for the answer; the frame
\* counts the transient answers to the file so far and keeps the place of
\* the call in the log
UploadAnswered(local_file, answer, try_nr) ==
    /\ frame' = [method |-> "storbinary", try_nr |-> try_nr,
                 pos |-> ReadTo(answer, frame.pos, BlocksOf(local_file)),
                 transient |-> frame.transient
                               + (IF StorError(answer) = "error_temp" THEN 1 ELSE 0),
                 at |-> Len(calls) + 1]
    /\ server' = IF answer = "stored"
                 THEN [server EXCEPT !.stored =
                          Append(@, [local |-> local_file,
                                     remote |-> WhitespaceSub(local_file),
                                     first |-> frame.pos,
                                     blocks |-> BlocksOf(local_file) - frame.pos])]
                 ELSE server
    /\ IF answer = "stored"
       THEN step' = step + 1 /\ pc' = "up_file" /\ UNCHANGED result
       ELSE IF Caught(StorError(answer)) /\ try_nr < GiveUpTries
       THEN UNCHANGED <<step, pc, result>>
       ELSE result' = Raised(StorError(answer)) /\ pc' = "up_finally" /\ UNCHANGED step

\* one pass of 'while try_nr < 10': storbinary(cmd, f) on the file opened
\* before the loop
UploadStor ==
    /\ pc = "up_stor"
    /\ frame.try_nr < AppStorTries
    /\ calls' = Append(calls, Call("stor", WhitespaceSub(request.local_files[step])))
    /\ \E answer \in StorOutcomes :
          UploadAnswered(request.local_files[step], answer, frame.try_nr + 1)
    /\ UNCHANGED <<runs, days, today, copies, simulate, remote, remote_cwd, connected,
                   logged_in, cur_backup_dirs, new_backup_dir, type_mapping,
                   dirs_delete, aborted, dlist, host_dir, handler, request>>

\* variant: the change-up follows the loop without a finally clause
UploadFinallySkipped ==
    /\ \/ pc = "up_finally"
       \/ pc = "up_file" /\ step > Len(request.local_files)
    /\ IF simulate \/ result.status = "raised"
       THEN UNCHANGED <<calls, remote_cwd>>
       ELSE /\ calls' = Append(calls, Call("cwd", DotDot))
            /\ remote_cwd' = RootDir
    /\ aborted' = (result.status = "raised")
    /\ pc' = IF result.status = "raised" THEN "post_run" ELSE "usage"
    /\ UNCHANGED <<runs, days, today, copies, simulate, remote, connected, logged_in,
                   cur_backup_dirs, new_backup_dir, type_mapping, dirs_delete, step,
                   dlist, host_dir, hvars>>

\* the finally clause: 'if not self.simulate: self.ftp.cwd('..')', then the
\* exception in flight, if any, leaves _run
UploadFinally ==
    /\ \/ pc = "up_finally"
       \/ pc = "up_file" /\ step > Len(request.local_files)
    /\ IF simulate
       THEN UNCHANGED <<calls, remote_cwd>>
       ELSE /\ calls' = Append(calls, Call("cwd", DotDot))
            /\ remote_cwd' = RootDir
    /\ aborted' = (result.status = "raised")
    /\ pc' = IF result.status = "raised" THEN "post_run" ELSE "usage"
    /\ UNCHANGED <<runs, days, today, copies, simulate, remote, connected, logged_in,
                   cur_backup_dirs, new_backup_dir, type_mapping, dirs_delete, step,
                   dlist, host_dir, hvars>>

NextUpload ==
    \/ UploadEnter
    \/ UploadFile
    \/ UploadStor
    \/ UploadFinally
    \/ ShowUsage
    \/ PostRun

SpecUpload == InitUpload /\ [][NextUpload]_vars

\* ------------------------------------------------------------------------
\* Sessions of SFTPHandler and FTPHandler: connect, disconnect, the setters
\* of the connection parameters and the operations on the remote store
\* ------------------------------------------------------------------------

MaxObjects == 3

MAX_SSH_TIMEOUT == 3600

SftpParams == {"host", "port", "user", "start_remote_dir", "key_file", "timeout"}

FtpParams == {"tls", "tls_verify"}

\* the keys of VERIFY_OPTS
VERIFY_OPTS == {"None", "optional", "required"}

\* the values a caller assigns to a connection parameter
ParamValues(param) ==
    CASE param = "tls" -> BOOLEAN
      [] param = "tls_verify" -> VERIFY_OPTS \cup {"bogus"}
      [] param = "timeout" -> {0, 30, 60}
      [] param = "port" -> {22, 2222}
      [] OTHER -> {"one", "two"}

SftpOps == {"exists", "is_dir", "dir_list", "mkdir", "remove_recursive"}

FtpOps == {"cwd", "dir_list", "mkdir", "put_file", "remove"}

\* SFTPHandler.__init__ and FTPHandler.__init__: 'client' is the identity of
\* the sftp_client or ftp object, 'objects' the number of client objects
\* created so far
InitSession ==
    /\ NoRun
    /\ pc = "h_idle"
    /\ \/ \E sim \in BOOLEAN :
            handler = [class |-> "SFTPHandler", connected |-> FALSE, simulate |-> sim,
                       params |-> [host |-> "one", port |-> 22, user |-> "one",
                                   start_remote_dir |-> "one", key_file |-> "one",
                                   timeout |-> 60],
                       client |-> 0, objects |-> 0, remote_dir |-> "None"]
       \/ \E sim, tls \in BOOLEAN :
            handler = [class |-> "FTPHandler", connected |-> FALSE, logged_in |-> FALSE,
                       simulate |-> sim,
                       params |-> [tls |-> tls, tls_verify |-> "None"],
                       client |-> 1, objects |-> 1, remote_dir |-> "/"]
    /\ server = [kind |-> IF handler.class = "SFTPHandler" THEN "sftp" ELSE "ftp"]
    /\ request = [op |-> "none"]
    /\ result = [status |-> "none"]
    /\ frame = [method |-> "none"]

\* a call of a method of the handler: the handler as it was is kept in frame
Invoke(req, after, sent, res) ==
    /\ pc \in {"h_idle", "h_done"}
    /\ request' = req
    /\ frame' = [method |-> req.op, before |-> handler]
    /\ handler' = after
    /\ calls' = sent
    /\ result' = res
    /\ pc' = "h_done"
    /\ UNCHANGED <<server, rvars>>

\* SFTPHandler.connect() against a server that accepts the session
SessSftpConnect ==
    /\ handler.class = "SFTPHandler"
    /\ handler.objects < MaxObjects
    /\ IF handler.connected
       THEN Invoke([op |-> "connect"], handler, <<>>, Returned("None"))
       ELSE Invoke([op |-> "connect"],
                   [handler EXCEPT !.connected = TRUE, !.client = handler.objects + 1,
                                   !.objects = @ + 1,
                                   !.remote_dir = handler.params.start_remote_dir],
                   <<Call("ssh_connect", <<>>), Call("open_sftp", <<>>),
                     Call("chdir", handler.params.start_remote_dir), Call("getcwd", <<>>)>>,
                   Returned("None"))

\* the handler after a connect() in which the named call has raised: the
\* flag is set behind ssh_client.connect(), sftp_client behind open_sftp()
\* and _remote_dir behind getcwd()
ConnectFailedAt(h, failing) ==
    CASE failing = "ssh_connect" -> h
      [] failing = "open_sftp" -> [h EXCEPT !.connected = TRUE]
      [] OTHER -> [h EXCEPT !.connected = TRUE, !.client = h.objects + 1,
                            !.objects = @ + 1]

\* the transport calls of connect() up to the one that raises
ConnectCallsTo(h, failing) ==
    CASE failing = "ssh_connect" -> <<Call("ssh_connect", <<>>)>>
      [] failing = "open_sftp" -> <<Call("ssh_connect", <<>>), Call("open_sftp", <<>>)>>
      [] failing = "chdir" ->
            <<Call("ssh_connect", <<>>), Call("open_sftp", <<>>),
              Call("chdir", h.params.start_remote_dir)>>
      [] OTHER ->
            <<Call("ssh_connect", <<>>), Call("open_sftp", <<>>),
              Call("chdir", h.params.start_remote_dir), Call("getcwd", <<>>)>>

\* SFTPHandler.connect() against a server on which the login, the opening
\* of the SFTP channel or the initial change of directory fails
SessSftpConnectFails ==
    /\ handler.class = "SFTPHandler"
    /\ handler.objects < MaxObjects
    /\ ~handler.connected
    /\ \E failing \in {"ssh_connect", "open_sftp", "chdir", "getcwd"} :
          Invoke([op |-> "connect", failing |-> failing],
                 ConnectFailedAt(handler, failing), ConnectCallsTo(handler, failing),
                 Raised(IF failing = "chdir" THEN "IOError" ELSE "SSHException"))

\* SFTPHandler.disconnect()
SessSftpDisconnect ==
    /\ handler.class = "SFTPHandler"
    /\ IF ~handler.connected
       THEN Invoke([op |-> "disconnect"], handler, <<>>, Returned("None"))
       ELSE Invoke([op |-> "disconnect"],
                   [handler EXCEPT !.connected = FALSE, !.client = 0],
                   <<Call("close", <<>>)>>, Returned("None"))

\* the setters of host, port, user, start_remote_dir, key_file and timeout
SessSftpSet ==
    /\ handler.class = "SFTPHandler"
    /\ \E param \in SftpParams : \E value \in ParamValues(param) :
          LET req == [op |-> "set", param |-> param, value |-> value]
          IN  IF param = "timeout"
              THEN IF value < 1 \/ value >= MAX_SSH_TIMEOUT
                   THEN Invoke(req, handler, <<>>, Raised("ValueError"))
                   ELSE Invoke(req, [handler EXCEPT !.params.timeout = value], <<>>,
                               Returned("None"))
              ELSE IF handler.connected
                   THEN Invoke(req, handler, <<>>, Raised("SFTPSetOnConnectedError"))
                   ELSE Invoke(req, [handler EXCEPT !.params[param] = value], <<>>,
                               Returned("None"))

\* the transport calls of an operation of a connected SFTPHandler on a path
\* that is a plain file
SftpOpCalls(op, sim) ==
    CASE op = "exists" -> <<Call("stat", <<>>)>>
      [] op = "is_dir" -> <<Call("stat", <<>>)>>
      [] op = "dir_list" -> <<Call("listdir", <<>>)>>
      [] op = "mkdir" -> <<Call("mkdir", <<>>)>>
      [] op = "remove_recursive" ->
            <<Call("stat", <<>>)>> \o (IF sim THEN <<>> ELSE <<Call("remove", <<>>)>>)

\* exists, is_dir, dir_list, mkdir and remove_recursive of SFTPHandler; the
\* message of mkdir's error names 'rpath', which mkdir does not define
SessSftpOp ==
    /\ handler.class = "SFTPHandler"
    /\ \E op \in SftpOps :
          IF ~handler.connected
          THEN Invoke([op |-> op], handler, <<>>,
                      Raised(IF op = "mkdir" THEN "NameError" ELSE "SFTPHandlerError"))
          ELSE Invoke([op |-> op], handler, SftpOpCalls(op, handler.simulate),
                      Returned("None"))

\* FTPHandler.login_ftp() against a server that accepts the login
SessFtpLogin ==
    /\ handler.class = "FTPHandler"
    /\ Invoke([op |-> "connect"],
              [handler EXCEPT !.connected = TRUE, !.logged_in = TRUE],
              <<Call("connect", <<>>), Call("login", <<>>),
                Call("cwd", handler.remote_dir), Call("pwd", <<>>)>>,
              Returned("None"))

\* FTPHandler.init_ftp(): a new ftplib object replaces self.ftp
InitFtp(h) == [h EXCEPT !.client = h.objects + 1, !.objects = @ + 1]

\* the setter of tls
SetTls(h, value) ==
    IF h.connected
    THEN IF value # h.params.tls
         THEN [h |-> h, res |-> Raised("FTPHandlerError")]
         ELSE [h |-> InitFtp([h EXCEPT !.params.tls = value]), res |-> Returned("None")]
    ELSE [h |-> [h EXCEPT !.params.tls = value], res |-> Returned("None")]

\* the setter of tls_verify: the value is stored before it is compared with
\* the stored one; the message for a value off VERIFY_OPTS names
\* 'tls_verify', which the setter does not define
SetTlsVerify(h, value) ==
    LET h1 == [h EXCEPT !.params.tls_verify = value]
    IN  IF value \notin VERIFY_OPTS THEN [h |-> h, res |-> Raised("NameError")]
        ELSE IF h1.connected
        THEN IF value # h1.params.tls_verify
             THEN [h |-> h1, res |-> Raised("FTPHandlerError")]
             ELSE [h |-> InitFtp(h1), res |-> Returned("None")]
        ELSE [h |-> h1, res |-> Returned("None")]

\* the setters of tls and tls_verify
SessFtpSet ==
    /\ handler.class = "FTPHandler"
    /\ handler.objects < MaxObjects
    /\ \E param \in FtpParams : \E value \in ParamValues(param) :
          \E r \in {IF param = "tls" THEN SetTls(handler, value)
                    ELSE SetTlsVerify(handler, value)} :
             Invoke([op |-> "set", param |-> param, value |-> value], r.h, <<>>, r.res)

\* cwd, dir_list, mkdir, put_file of a regular file and remove(False, item)
\* of FTPHandler against a server that accepts every command; a command on
\* an ftplib object without a connection ends in an AttributeError;
\* mkdir names 'new_backup_dir', which it does not define
FtpOpOutcome(h, op) ==
    LET ftplib(cmd) ==
            IF h.connected THEN [sent |-> <<Call(cmd, <<>>)>>, res |-> Returned("None")]
            ELSE [sent |-> <<Call(cmd, <<>>)>>, res |-> Raised("AttributeError")]
        quiet == [sent |-> <<>>, res |-> Returned("None")]
    IN  CASE op = "cwd" -> ftplib("cwd")
          [] op = "dir_list" -> ftplib("dir")
          [] op = "mkdir" ->
                IF ~h.logged_in THEN [sent |-> <<>>, res |-> Raised("FTPHandlerError")]
                ELSE IF h.simulate THEN quiet
                ELSE [sent |-> <<>>, res |-> Raised("NameError")]
          [] op = "put_file" ->
                IF ~h.logged_in THEN [sent |-> <<>>, res |-> Raised("FTPHandlerError")]
                ELSE IF h.simulate THEN quiet
                ELSE ftplib("stor")
          [] op = "remove" ->
                IF ~h.logged_in THEN [sent |-> <<>>, res |-> Raised("FTPRemoveError")]
                ELSE IF h.simulate THEN quiet
                ELSE ftplib("delete")

SessFtpOp ==
    /\ handler.class = "FTPHandler"
    /\ \E op \in FtpOps :
          \E r \in {FtpOpOutcome(handler, op)} :
             Invoke([op |-> op], handler, r.sent, r.res)

NextSession ==
    \/ SessSftpConnect
    \/ SessSftpConnectFails
    \/ SessSftpDisconnect
    \/ SessSftpSet
    \/ SessSftpOp
    \/ SessFtpLogin
    \/ SessFtpSet
    \/ SessFtpOp

SpecSession == InitSession /\ [][NextSession]_vars

\* ------------------------------------------------------------------------
\* FTPHandler.__init__ (ftp_handler.py)
\* ------------------------------------------------------------------------

DEFAULT_FTP_PORT == 21
DEFAULT_FTP_TIMEOUT == 60
DEFAULT_MAX_STOR_ATTEMPTS == 10
MAX_FTP_TIMEOUT == 3600

\* the defaults of the keyword arguments in the signature of __init__
SignatureDefaults ==
    [host |-> "ftp", port |-> DEFAULT_FTP_PORT, user |-> "anonymous",
     password |-> "frank@brehm-online.com", passive |-> FALSE, remote_dir |-> "None",
     tls |-> FALSE, tls_verify |-> "None", tz |-> "UTC",
     timeout |-> DEFAULT_FTP_TIMEOUT, max_stor_attempts |-> DEFAULT_MAX_STOR_ATTEMPTS,
     simulate |-> FALSE]

\* a keyword argument: left out, or passed with one of the values
Keyword(values) == {[passed |-> FALSE]} \cup {[passed |-> TRUE, value |-> v] : v \in values}

\* the value the body of __init__ sees for a keyword
Given(args, name) ==
    IF args[name].passed THEN args[name].value ELSE SignatureDefaults[name]

\* the calls FTPHandler(...) that are tried; 0 stands for a false port or
\* number of attempts (0 or None)
Constructions ==
    [host : Keyword({"one"}), port : Keyword({0, 2121, 65536}), user : Keyword({"one"}),
     password : Keyword({"one"}), passive : Keyword({TRUE}),
     remote_dir : Keyword({"None", "/backup"}), tls : Keyword(BOOLEAN),
     tls_verify : Keyword({"None", "required", "bogus"}), tz : Keyword({"one"}),
     timeout : Keyword({0, 30, 3601}), max_stor_attempts : Keyword({0, 3}),
     simulate : Keyword({TRUE})]

\* the attributes assigned before the setters are used
NewAssigned(args) ==
    [class |-> "FTPHandler", host |-> Given(args, "host"), port |-> DEFAULT_FTP_PORT,
     user |-> Given(args, "user"), password |-> Given(args, "password"),
     passive |-> Given(args, "passive"), remote_dir |-> "/",
     params |-> [tls |-> Given(args, "tls"), tls_verify |-> "None"],
     tz |-> Given(args, "tz"), timeout |-> DEFAULT_FTP_TIMEOUT,
     max_stor_attempts |-> DEFAULT_MAX_STOR_ATTEMPTS,
     connected |-> FALSE, logged_in |-> FALSE, simulate |-> Given(args, "simulate"),
     ftp |-> "None", client |-> 0, objects |-> 0]

\* the setter of remote_dir
SetRemoteDir(h, value) ==
    [h |-> [h EXCEPT !.remote_dir = IF value = "None" THEN "/" ELSE value],
     res |-> Returned("None")]

\* the setter of port
SetPort(h, value) ==
    IF value = 0 THEN [h |-> [h EXCEPT !.port = DEFAULT_FTP_PORT], res |-> Returned("None")]
    ELSE IF value < 1 \/ value >= 2 ^ 16 THEN [h |-> h, res |-> Raised("ValueError")]
    ELSE [h |-> [h EXCEPT !.port = value], res |-> Returned("None")]

\* the setter of timeout
SetTimeout(h, value) ==
    IF value < 1 \/ value > MAX_FTP_TIMEOUT THEN [h |-> h, res |-> Raised("ValueError")]
    ELSE [h |-> [h EXCEPT !.timeout = value], res |-> Returned("None")]

\* the setter of max_stor_attempts
SetMaxStorAttempts(h, value) ==
    IF value = 0
    THEN [h |-> [h EXCEPT !.max_stor_attempts = DEFAULT_MAX_STOR_ATTEMPTS],
          res |-> Returned("None")]
    ELSE IF value < 1 THEN [h |-> h, res |-> Raised("ValueError")]
    ELSE [h |-> [h EXCEPT !.max_stor_attempts = value], res |-> Returned("None")]

\* the next statement of __init__, unless an earlier one has raised
Then(r, Setter(_, _), value) == IF r.res.status = "raised" THEN r ELSE Setter(r.h, value)

\* variant: the client object is an ftplib.FTP whatever tls says
ClientClassPlain(h) == "FTP"

\* the class of the object init_ftp() creates
ClientClass(h) == IF h.params.tls THEN "FTP_TLS" ELSE "FTP"

\* init_ftp() at the end of __init__
NewInitFtp(h, value) == [h |-> [InitFtp(h) EXCEPT !.ftp = ClientClass(h)], res |-> Returned("None")]

\* FTPHandler.__init__(**args)
FtpHandlerInit(args) ==
    Then(Then(Then(Then(Then(SetRemoteDir(NewAssigned(args), Given(args, "remote_dir")),
                             SetPort, Given(args, "port")),
                        SetTlsVerify, Given(args, "tls_verify")),
                   SetTimeout, Given(args, "timeout")),
              SetMaxStorAttempts, Given(args, "max_stor_attempts")),
         NewInitFtp, "None")

InitNew ==
    /\ NoRun
    /\ pc = "h_idle"
    /\ handler = [class |-> "none"]
    /\ server = [kind |-> "ftp"]
    /\ request \in {[op |-> "__init__", args |-> a] : a \in Constructions}
    /\ result = [status |-> "none"]
    /\ frame = [method |-> "none"]

\* the expression FTPHandler(...) is evaluated: the object exists when
\* __init__ has returned
FtpHandlerNew ==
    /\ pc = "h_idle"
    /\ request.op = "__init__"
    /\ \E r \in {FtpHandlerInit(request.args)} :
          /\ result' = r.res
          /\ handler' = IF r.res.status = "raised" THEN handler ELSE r.h
    /\ pc' = "h_done"
    /\ UNCHANGED <<calls, server, request, frame, rvars>>

NextNew == FtpHandlerNew

SpecNew == InitNew /\ [][NextNew]_vars

\* ------------------------------------------------------------------------
\* Properties of the retention engine
\* ------------------------------------------------------------------------

\* the classes that have a quota
DatedKeys == {"yearly", "monthly", "weekly", "daily"}

\* the run has computed dirs_delete
Decided == pc \in {"remove", "upload", "usage", "post_run"}

\* the names the run classifies: the backup directories found and the new one
Candidates == Range(cur_backup_dirs)

\* the names held by the lists of the given classes
Protected(keys) == UNION {Range(type_mapping[k]) : k \in keys}

\* the name starts with YYYY[-_]MM[-_]DD, read at fixed positions
HasDatePrefix(s) ==
    /\ Len(s) >= 10
    /\ \A i \in {1, 2, 3, 4, 6, 7, 9, 10} : s[i] \in DIGIT
    /\ s[5] \in SEP
    /\ s[8] \in SEP

PrefixYear(s) == 1000 * (s[1] - 48) + 100 * (s[2] - 48) + 10 * (s[3] - 48) + (s[4] - 48)

PrefixMonth(s) == 10 * (s[6] - 48) + (s[7] - 48)

PrefixDay(s) == 10 * (s[9] - 48) + (s[10] - 48)

MonthLengths == <<31, 28, 31, 30, 31, 30, 31, 31, 30, 31, 30, 31>>

\* year, month and day name a day of the Gregorian calendar
CalendarDate(y, m, d) ==
    /\ y >= 1
    /\ m \in 1..12
    /\ d >= 1
    /\ d <= MonthLengths[m]
            + (IF m = 2 /\ y % 4 = 0 /\ (y % 100 # 0 \/ y % 400 = 0) THEN 1 ELSE 0)

HasValidDate(s) ==
    HasDatePrefix(s) /\ CalendarDate(PrefixYear(s), PrefixMonth(s), PrefixDay(s))

\* Zeller's congruence: the day is a Sunday
IsSunday(y, m, d) ==
    LET mm == IF m < 3 THEN m + 12 ELSE m
        yy == IF m < 3 THEN y - 1 ELSE y
        k == yy % 100
        j == yy \div 100
    IN  (d + ((13 * (mm + 1)) \div 5) + k + (k \div 4) + (j \div 4) + 5 * j) % 7 = 1

\* the class is one the calendar date of the name belongs to
BelongsTo(key, s) ==
    /\ HasValidDate(s)
    /\ CASE key = "yearly" -> PrefixMonth(s) = 1 /\ PrefixDay(s) = 1
         [] key = "monthly" -> PrefixDay(s) = 1
         [] key = "weekly" -> IsSunday(PrefixYear(s), PrefixMonth(s), PrefixDay(s))
         [] key = "daily" -> TRUE
         [] OTHER -> FALSE

RECURSIVE TrailingDigits(_, _)
\* index of the first digit of the run of digits that ends the name
TrailingDigits(s, i) ==
    IF i >= 1 /\ s[i] \in DIGIT THEN TrailingDigits(s, i - 1) ELSE i + 1

\* the sequence counter a dated name ends with
CounterOf(s) == ToInt(s, TrailingDigits(s, Len(s)), Len(s) + 1)

\* a encodes a later (calendar date, sequence counter) than b
Later(a, b) ==
    LET ta == <<PrefixYear(a), PrefixMonth(a), PrefixDay(a), CounterOf(a)>>
        tb == <<PrefixYear(b), PrefixMonth(b), PrefixDay(b), CounterOf(b)>>
    IN  \E i \in 1..4 : ta[i] > tb[i] /\ \A j \in 1..(i - 1) : ta[j] = tb[j]

Min(a, b) == IF a <= b THEN a ELSE b

\* C1 (as stated): in every run, once the delete set is computed, the new
\* directory of the run is still in the daily list after the quota eviction
\* and is not in the delete set.
C1_TodayKept ==
    Decided => /\ InList(new_backup_dir, type_mapping.daily)
               /\ ~InList(new_backup_dir, dirs_delete)

C3_RetainedNotDeleted ==
    Decided => \A n \in Candidates :
                  n \in Protected(DatedKeys) => ~InList(n, dirs_delete)

\* a candidate was evicted from a class of its date and is retained by another
C3_Witness ==
    /\ Decided
    /\ \E n \in Candidates : \E k1, k2 \in DatedKeys :
          /\ InList(n, type_mapping[k1])
          /\ BelongsTo(k2, n)
          /\ ~InList(n, type_mapping[k2])

\* the eviction step never drops a member that is later than one it keeps
MostRecentKept ==
    pc = "evict" =>
        \A key \in DatedKeys :
            \A e \in Range(type_mapping[key]) \ Range(type_mapping'[key]) :
                \A r \in Range(type_mapping'[key]) : ~Later(e, r)

\* C4 (as stated): in each class with a quota no evicted member encodes a
\* later (calendar date, sequence counter) than a retained member, for every
\* set of names accepted as backup directories.
C4_MostRecentRetained == [][MostRecentKept]_vars

\* what the eviction step does to the lists, the call log and the server
EvictionStep ==
    pc = "evict" =>
        /\ \A key \in DatedKeys :
              LET before == type_mapping[key]
                  after == type_mapping'[key]
              IN  /\ Len(after) = Min(Len(before), copies[key])
                  /\ Range(after) \subseteq Range(before)
                  /\ \A e \in Range(before) \ Range(after) :
                        \A r \in Range(after) : KeyLess(e, r)
        /\ calls' = calls
        /\ remote' = remote

\* C5: for each of the four classes with quota q and n members the eviction
\* leaves exactly min(n, q) members, every evicted member sorts (lower-cased,
\* lexicographically) before every retained member, and the step issues no
\* remote call and leaves the server as it is.
C5_Eviction == [][EvictionStep]_vars

\* the eviction has dropped a member of a class and filled the quota
C5_Witness ==
    /\ pc = "select"
    /\ \E key \in DatedKeys :
          /\ Len(type_mapping[key]) = copies[key]
          /\ \E n \in Candidates : BelongsTo(key, n) /\ ~InList(n, type_mapping[key])

\* the backup directories the run has found, without the new one
Existing == {cur_backup_dirs[i] : i \in 1..(Len(cur_backup_dirs) - 1)}

\* C6: the new directory name is YYYY-MM-DD_ of the current UTC date followed
\* by a two-digit counter; it is not among the existing names, every name of
\* the same date with a smaller counter is among them, and the counter (the
\* length of the search) is at most the number of existing names.
C6_NewName ==
    pc = "classify" =>
        LET n == new_backup_dir
        IN  /\ Len(n) = 13
            /\ HasDatePrefix(n) /\ n[5] = 45 /\ n[8] = 45 /\ n[11] = 95
            /\ n[12] \in DIGIT /\ n[13] \in DIGIT
            /\ PrefixYear(n) = today.year
            /\ PrefixMonth(n) = today.month
            /\ PrefixDay(n) = today.day
            /\ n \notin Existing
            /\ n \notin DOMAIN remote
            /\ \A c \in 0..(CounterOf(n) - 1) :
                  \E m \in Existing :
                      /\ Len(m) = 13
                      /\ SubSeq(m, 1, 11) = SubSeq(n, 1, 11)
                      /\ CounterOf(m) = c
            /\ CounterOf(n) <= Cardinality(Existing)

\* the search has passed over a name that exists
C6_Witness == pc = "classify" /\ CounterOf(new_backup_dir) >= 1

Classified == pc \in {"evict", "select"} \/ Decided

\* C8: a candidate whose prefix is no date, or no calendar date, is in
\* 'other' and in no dated list; no name is in 'other' and in a dated list;
\* the classification ends without an exception and has entered every
\* candidate in a list.
C8_OtherOnly ==
    /\ Classified =>
          \A n \in Candidates :
              ~HasValidDate(n) => /\ InList(n, type_mapping.other)
                                  /\ n \notin Protected(DatedKeys)
    /\ Range(type_mapping.other) \cap Protected(DatedKeys) = {}
    /\ pc = "evict" => ~aborted /\ Candidates \subseteq Protected(DOMAIN type_mapping)

\* a name without a date prefix and a name with the date 2024-13-40 have
\* been classified
C8_Witness ==
    /\ pc = "evict"
    /\ \E n \in Candidates : ~HasDatePrefix(n) /\ InList(n, type_mapping.other)
    /\ \E n \in Candidates :
          HasDatePrefix(n) /\ ~HasValidDate(n) /\ InList(n, type_mapping.other)

\* the state that follows the computation of dirs_delete
JustDecided == pc = "remove" /\ step = 1

\* C9: for the quotas and the date of the run, the new directory name and
\* the delete set (as a set) that the run computed from the listing in the
\* order it was delivered are the ones the computation yields for every
\* other order of the same listing.
C9_OrderIndependent ==
    JustDecided =>
        \A order \in ListingOrders(Range(dlist)) :
            RunResult(order, today, copies)
                = [new |-> new_backup_dir, del |-> Range(dirs_delete)]

\* a listing that was not delivered in sorted order led to a deletion
C9_Witness ==
    /\ JustDecided
    /\ Len(dlist) >= 2
    /\ dlist # SortedSeq(Range(dlist))
    /\ dirs_delete # <<>>

\* C10 (as stated): with simulate enabled no mutating remote call is issued
\* at any point of a run.
C10_SimulateNoMutation ==
    simulate => \A i \in 1..Len(calls) : calls[i].op \notin MutatingOps

\* ------------------------------------------------------------------------
\* Properties of the handlers
\* ------------------------------------------------------------------------

\* an upload that was really tried has ended
PutEnded ==
    /\ pc = "h_done"
    /\ request.op = "put_file"
    /\ handler.logged_in /\ request.is_file /\ ~handler.simulate

\* C11 (as stated): when every STOR raises the transient error, the upload
\* of one file makes exactly max_stor_attempts STOR calls and then raises;
\* it never makes one call more and never returns normally.
C11_RetryExhaustion ==
    /\ CountCalls(calls, "stor") <= handler.max_stor_attempts
    /\ (PutEnded /\ server.transient = "always") =>
          /\ CountCalls(calls, "stor") = handler.max_stor_attempts
          /\ result.status = "raised"

\* C12: within one run every delete and rmd call of the pruning comes before
\* the mkd of the new directory, the mkd comes before the first STOR, and
\* every STOR comes before the listing of the usage report (the first
\* listing after the mkd).
C12_PhaseOrder ==
    \A i, j \in 1..Len(calls) :
        i < j =>
            /\ calls[i].op \in {"mkd", "stor"} => calls[j].op \notin {"delete", "rmd"}
            /\ calls[i].op \in {"mkd", "stor"} => calls[j].op # "mkd"
            /\ (calls[i].op = "dir" /\ \E k \in 1..(i - 1) : calls[k].op = "mkd")
                  => calls[j].op # "stor"

\* a run has pruned a directory, created the new one, stored both files and
\* listed the root for the usage report
C12_Witness ==
    /\ pc = "post_run"
    /\ CountCalls(calls, "delete") >= 1
    /\ CountCalls(calls, "rmd") >= 1
    /\ CountCalls(calls, "mkd") = 1
    /\ CountCalls(calls, "stor") = Cardinality(LocalFiles)
    /\ calls[Len(calls)].op = "dir"

\* C19 (as stated): a symbolic permission string that is parsed into an
\* EntryPermissions value and rendered again is reproduced, and the value
\* of a string that starts with 'd' is a directory.
C19_PermRoundTrip ==
    (pc = "h_done" /\ request.op = "EntryPermissions" /\ request.arg \in SymbolicPerms) =>
        /\ result = Returned(request.arg)
        /\ request.arg[1] = 100 => PermIsDir(handler.permission)

\* the entry of r, if it has one, before the entries rest
GoodBefore(r, rest) == IF r.status = "entry" THEN <<r.entry>> \o rest ELSE rest

RECURSIVE GoodLines(_)
\* the entries of the lines of the reply that are neither blank, nor off the
\* shape of a long listing, nor carry an unrecognised permission field or
\* time stamp
GoodLines(lines) ==
    IF lines = <<>> THEN <<>>
    ELSE GoodBefore(PerformLine(Head(lines)), GoodLines(Tail(lines)))

\* C17 (as stated): listing a directory never raises because of one bad
\* line; blank lines, lines off the listing shape and lines with an
\* unrecognised permission field or time stamp are skipped and the entries
\* of all other lines are returned.
C17_BadRowSkipped ==
    (pc = "h_done" /\ request.op = "dir_list") => result = Returned(GoodLines(server.lines))

\* C13 (as stated): a remove_recursive that is not simulated and runs on a
\* connected store removes every path beneath a directory before the
\* directory itself, and when it has ended nothing of the item's tree is
\* left on the remote.
C13_DepthFirstRemoval ==
    ( /\ pc = "h_done"
      /\ request.op \in {"remove_recursive", "remove"}
      /\ ~handler.simulate
      /\ IF handler.class = "SFTPHandler" THEN handler.connected ELSE handler.logged_in ) =>
        /\ result.status = "returned"
        /\ \A n \in server.tree : ~IsPrefix(<<request.item>>, n.path)
        /\ \A i, j \in 1..Len(server.removed) :
              (i < j) => ~IsPrefix(server.removed[i], server.removed[j])

RECURSIVE SumSizes(_)
SumSizes(S) ==
    IF S = {} THEN 0
    ELSE LET n == CHOOSE n \in S : TRUE IN SizeOf(n.path, n.kind) + SumSizes(S \ {n})

\* the plain files at or beneath a path
FilesBeneath(tree, path) == {n \in tree : n.kind = "file" /\ IsPrefix(path, n.path)}

\* C18 (as stated): disk_usage of an entry is the sum of the sizes of the
\* plain files at or beneath it: the entry's own size for a plain file, the
\* total of the re-listed sub-directories for a directory.
C18_DiskUsageSum ==
    (pc = "h_done" /\ request.op = "disk_usage" /\ handler.logged_in) =>
        result = Returned(SumSizes(FilesBeneath(server.tree, <<request.item>>)))

\* C14 (as stated): when connect has established a session in a run, the
\* session has been closed by disconnect when the run has ended, whether the
\* steps after the connection succeeded or raised.
C14_DisconnectBeforeEnd ==
    (pc = "idle" /\ \E i \in 1..Len(calls) : calls[i].op = "ssh_connect") =>
        /\ ~connected
        /\ \E j \in 1..Len(calls) : calls[j].op = "close"

\* the error classes that report the state of a handler
StateErrors ==
    {"SFTPHandlerError", "SFTPSetOnConnectedError", "SFTPSetOnNotConnectedError",
     "FTPHandlerError", "FTPRemoveError", "FTPCwdError", "FTPPutError"}

\* C15 (as stated): an operation on the remote store that is invoked on a
\* handler without a connection fails with the handler's state error, sends
\* nothing and does not connect.
C15_FailFastNotConnected ==
    ( /\ pc = "h_done"
      /\ request.op \in SftpOps \cup FtpOps
      /\ ~frame.before.connected ) =>
        /\ result.status = "raised"
        /\ result.class \in StateErrors
        /\ calls = <<>>
        /\ ~handler.connected

\* C16 (as stated): on a connected handler, assigning a different value to a
\* connection parameter fails with an error and leaves the stored
\* parameters and the client object as they were.
C16_ParamsFrozen ==
    ( /\ pc = "h_done"
      /\ request.op = "set"
      /\ frame.before.connected
      /\ request.value # frame.before.params[request.param] ) =>
        /\ result.status = "raised"
        /\ handler = frame.before

\* C20 (as stated): connect on a connected handler and disconnect on a
\* handler without a connection send nothing, raise nothing and leave the
\* handler as it was.
C20_Idempotent ==
    ( /\ pc = "h_done"
      /\ \/ request.op = "connect" /\ frame.before.connected
         \/ request.op = "disconnect" /\ ~frame.before.connected ) =>
        /\ calls = <<>>
        /\ result.status = "returned"
        /\ handler = frame.before

\* C21: an FTPHandler that __init__ has returned is neither connected nor
\* logged in, its client object is an FTP_TLS iff tls=True was passed and an
\* FTP otherwise, and every parameter that was not passed holds its default
\* (tls_verify None, port 21, timeout 60, max_stor_attempts 10, passive False,
\* remote_dir '/', host, user, password and timezone as in the signature)
C21_ConstructedDefaults ==
    ( /\ pc = "h_done"
      /\ request.op = "__init__"
      /\ result.status = "returned" ) =>
        LET a == request.args
            Default(name, value) == a[name].passed \/ value = SignatureDefaults[name]
        IN  /\ ~handler.connected
            /\ ~handler.logged_in
            /\ handler.ftp = "FTP_TLS" <=> (a.tls.passed /\ a.tls.value)
            /\ handler.ftp \in {"FTP", "FTP_TLS"}
            /\ a.remote_dir.passed \/ handler.remote_dir = "/"
            /\ Default("tls_verify", handler.params.tls_verify)
            /\ Default("host", handler.host)
            /\ Default("port", handler.port)
            /\ Default("user", handler.user)
            /\ Default("password", handler.password)
            /\ Default("tz", handler.tz)
            /\ Default("timeout", handler.timeout)
            /\ Default("max_stor_attempts", handler.max_stor_attempts)
            /\ Default("passive", handler.passive)

\* a TLS handler was constructed with nothing but tls=True passed
C21_Witness ==
    /\ pc = "h_done"
    /\ request.op = "__init__"
    /\ result.status = "returned"
    /\ request.args.tls.passed /\ request.args.tls.value
    /\ \A name \in DOMAIN request.args \ {"tls"} : ~request.args[name].passed
    /\ handler.ftp = "FTP_TLS"
    /\ handler.port = DEFAULT_FTP_PORT

\* the item was handed to remove_recursive: its 'cwd' is in the log
Attempted(item) == \E i \in 1..Len(calls) : calls[i] = Call("cwd", item)

\* C22: when the pruning pass over delete candidates that are directories
\* has ended, remove_recursive was attempted for every name of the delete
\* set and the run went on to create the new directory, whatever removals
\* had failed
C22_PruneGoesOn ==
    ( /\ pc \in {"made", "post_run"}
      /\ frame.method \in {"remove_recursive", "mkd"} ) =>
        /\ \A i \in 1..Len(dirs_delete) : Attempted(dirs_delete[i])
        /\ simulate \/ \E i \in 1..Len(calls) : calls[i] = Call("mkd", new_backup_dir)

\* C26: when remove_recursive has returned normally, the current remote
\* directory is the one it was called in
C26_CwdRestored ==
    ( /\ pc = "remove"
      /\ frame.method = "remove_recursive"
      /\ result.status = "returned" ) =>
        server.cwd = frame.cwd

\* the positions of the log that hold a call of the operation with the argument
CallsOf(op, arg) == {i \in 1..Len(calls) : calls[i] = Call(op, arg)}

C24_CwdUpOnce ==
    /\ simulate => \A i \in 1..Len(calls) : calls[i].op # "cwd"
    /\ ( /\ pc = "post_run"
         /\ aborted
         /\ frame.method = "storbinary" ) =>
            /\ Cardinality(CallsOf("cwd", new_backup_dir)) = 1
            /\ Cardinality(CallsOf("cwd", DotDot)) = 1
            /\ calls[Len(calls)] = Call("cwd", DotDot)
            /\ remote_cwd = RootDir

\* the tenth transient failure of a file has left the run after the change-up
C24_Witness ==
    /\ pc = "post_run"
    /\ aborted
    /\ result = Raised("error_temp")
    /\ frame.try_nr = GiveUpTries
    /\ calls[Len(calls)] = Call("cwd", DotDot)

\* C27: a file that was stored, on the first try or on a later one, was
\* transmitted from its first block and in full
C27_RetrySendsWholeFile ==
    \A i \in 1..Len(server.stored) :
        /\ server.stored[i].first = 0
        /\ server.stored[i].blocks = BlocksOf(server.stored[i].local)

\* C30: no two distinct local files of a run are stored under the same
\* remote name
C30_RemoteNamesDistinct ==
    \A i, j \in 1..Len(server.stored) :
        server.stored[i].local # server.stored[j].local =>
            server.stored[i].remote # server.stored[j].remote

\* C28: an SFTPHandler whose connected flag is set holds an open sftp_client
\* and a remote_dir, and a connect() that has raised leaves the flag unset
C28_ConnectedMeansOpen ==
    handler.class = "SFTPHandler" =>
        /\ handler.connected => handler.client # 0 /\ handler.remote_dir # "None"
        /\ ( pc = "h_done" /\ request.op = "connect" /\ result.status = "raised" ) =>
              ~handler.connected

\* the candidates with a valid calendar date that are not in the delete set
DatedKept == {n \in Candidates : HasValidDate(n) /\ ~InList(n, dirs_delete)}

\* C29: once a run has computed its delete set, the number of validly dated
\* candidates that are not in it is at most the sum of the yearly, monthly,
\* weekly and daily quotas
C29_KeptWithinQuotas ==
    Decided =>
        Cardinality(DatedKept) <= copies.yearly + copies.monthly + copies.weekly + copies.daily

\* the quotas are exhausted: as many dated candidates are kept as the
\* quotas admit, and other dated candidates are deleted
C29_Witness ==
    /\ Decided
    /\ Cardinality(DatedKept) = copies.yearly + copies.monthly + copies.weekly + copies.daily
    /\ \E n \in Range(dirs_delete) : HasValidDate(n)

\* process q has files left to upload into its new directory
Uploading(q) == frame[q].pc = "upload" /\ frame[q].step <= Len(SortedLocalFiles)

\* process p had the name in its delete set and has removed the directory
HasRemoved(p, name) == InList(name, frame[p].dirs_delete) /\ InList(name, frame[p].removed)

\* C25: a run that is uploading loses its new directory only in the race of
\* the claim: the other run has chosen a different new name, has put the
\* directory in its delete set and has removed it
C25_RaceOnDeletion ==
    \A q \in Procs :
        ( Uploading(q) /\ frame[q].new_backup_dir \notin DOMAIN remote ) =>
            \E p \in Procs \ {q} :
                /\ frame[p].new_backup_dir # <<>>
                /\ frame[p].new_backup_dir # frame[q].new_backup_dir
                /\ HasRemoved(p, frame[q].new_backup_dir)

\* the interleaving of the claim: the directory a run is uploading into was
\* removed by the pruning of the other run, which has chosen another name
C25_Witness ==
    \E q \in Procs : \E p \in Procs \ {q} :
        /\ Uploading(q)
        /\ frame[q].new_backup_dir \notin DOMAIN remote
        /\ frame[p].new_backup_dir # frame[q].new_backup_dir
        /\ HasRemoved(p, frame[q].new_backup_dir)
        /\ frame[p].pc \in {"remove", "upload"}

====
